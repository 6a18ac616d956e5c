------------------------------ MODULE SdTestProofs ------------------------------
(* Proof that a read of the SD card which ends with a good status left the right sector in the
   FIFO (SdTest!ReadIsSector), and that a write which ends without an error was taken by the
   card, whole (SdTest!WriteIsAccepted), for sectors and responses of any length, any delays of
   the card, and a card that is pulled out between any two units of a transfer.

   The invariant ties the card to the controller, who only know each other by the units on
   the wires. While no transfer is on, the card is deselected and its next unit starts a
   command (Deselected). During a read the card has not looked at the command yet, or answers
   it, and every unit it sends is of the sector asked for or says nothing (Reading). During a
   write the card has just the words of the FIFO that have been sent (Writes). Both are lost when
   the card is pulled: then only the CRC tells, which is that of one list of words (OnlyCRC).

   What the FIFO holds during a write is what the program put there, so the invariant
   follows the program as well, from the last wait before the filling to the write
   (QuietOK, FillOK, WrittenOK). The first part of the proof finds these accesses in it.

   The second half proves that no assertion of the simulated card fails, wherever the card is
   pulled (SdTest!CardAssertionsHold). What keeps the card content is the order in which
   the program sends its commands, so every place of the program gets a label: how far the card
   has been brought up, what the data register holds, whether a command may be running
   (Labelled). Safe says that the label of the current access is true. *)
EXTENDS SdTest, SequenceTheorems, TLAPS

(* The accesses of the program, by kind; a write of the control register that is not the
   one that writes a sector, and reads a sector as READ_SECTOR does or none. *)
DataOps == [op : {"data"}, v : Nat]
CtrlOps == {o \in [op : {"ctrl"}, n : Nat, clr : BOOLEAN, reg : BOOLEAN, fifo : BOOLEAN, wr : BOOLEAN, id : FIFOs] :
               o.n # 24 /\ (o.n = 17 => o.fifo /\ ~o.wr /\ ~o.reg)}
WaitOps == [op : {"wait"}]
GetOps  == [op : {"get"}, id : FIFOs]
WhileOps == [op : {"while1"}, back : Nat]
ErrOps  == [op : {"iferr"}, skip : Nat]

Plain == DataOps \union CtrlOps \union WaitOps \union GetOps
\* Up to the first writing of a FIFO the program may go back, after it only on.
Early == Plain \union WhileOps
Late  == Plain \union ErrOps

\* A program of one access.
LEMMA OneOp ==
    ASSUME NEW S, NEW o \in S
    PROVE  <<o>> \in Seq(S) /\ Len(<<o>>) = 1 /\ <<o>>[1] = o
  OBVIOUS

\* What each macro of board.h and each loop of the test makes: plain accesses, but for the write of a sector.
LEMMA Pieces ==
    /\ \A v \in Nat : Set(v) \in Seq(Plain)
    /\ SETAUX \in Seq(Plain) /\ READAUX \in Seq(Plain) /\ CLEARERR(READAUX) \in Seq(Plain) /\ WAIT \in Seq(Plain)
    /\ \A n \in Nat \ {17, 24} : CMD(n) \in Seq(Plain) /\ READREG(n) \in Seq(Plain)
                                 /\ CLEARERR(CMD(n)) \in Seq(Plain) /\ CLEARERR(READREG(n)) \in Seq(Plain)
    /\ \A n \in Nat \ {24}, id \in FIFOs : FIFO_OP(n, id) \in Seq(Plain)
    /\ \A id \in FIFOs : Fifo(id) \in Seq(Plain) /\ Len(Fifo(id)) = BLKWORDS
<1>0. DataOps \subseteq Plain /\ CtrlOps \subseteq Plain /\ WaitOps \subseteq Plain /\ GetOps \subseteq Plain
  BY DEF Plain
<1>1. ASSUME NEW v \in Nat PROVE Set(v) \in Seq(Plain)
  <2>1. [op |-> "data", v |-> v] \in Plain
    BY <1>0 DEF DataOps
  <2> QED
    BY <2>1, OneOp DEF Set
<1>2. \A n \in Nat \ {17, 24} : Ctrl(n) \in CtrlOps
  BY DEF Ctrl, CtrlOps, FIFOs
<1>3. SETAUX \in Seq(Plain) /\ READAUX \in Seq(Plain)
  <2>1. Ctrl(255) \in Plain /\ Ctrl(191) \in Plain
    BY <1>0, <1>2
  <2> QED
    BY <2>1, OneOp DEF SETAUX, READAUX
<1>4. WAIT \in Seq(Plain)
  <2>1. [op |-> "wait"] \in Plain
    BY <1>0 DEF WaitOps
  <2> QED
    BY <2>1, OneOp DEF WAIT
<1>5. ASSUME NEW n \in Nat \ {17, 24}
      PROVE  /\ CMD(n) \in Seq(Plain) /\ READREG(n) \in Seq(Plain)
             /\ CLEARERR(CMD(n)) \in Seq(Plain) /\ CLEARERR(READREG(n)) \in Seq(Plain)
  <2>1. Ctrl(n) \in CtrlOps
    BY <1>2
  <2> DEFINE r == [Ctrl(n) EXCEPT !.reg = TRUE]
  <2>2. r \in CtrlOps /\ [Ctrl(n) EXCEPT !.clr = TRUE] \in CtrlOps
    BY <2>1 DEF CtrlOps, Ctrl
  <2>5. [r EXCEPT !.clr = TRUE] \in CtrlOps
    BY <2>2 DEF CtrlOps, Ctrl
  <2>6. /\ CMD(n) = <<Ctrl(n)>> /\ READREG(n) = <<r>>
        /\ CLEARERR(CMD(n)) = <<[Ctrl(n) EXCEPT !.clr = TRUE]>> /\ CLEARERR(READREG(n)) = <<[r EXCEPT !.clr = TRUE]>>
    BY DEF CMD, READREG, CLEARERR
  <2> QED
    BY <1>0, <2>1, <2>2, <2>5, <2>6, OneOp, ZenonT(60)
<1>6. CLEARERR(READAUX) \in Seq(Plain)
  <2>1. Ctrl(191) \in CtrlOps
    BY <1>2
  <2>2. [Ctrl(191) EXCEPT !.clr = TRUE] \in CtrlOps
    BY <2>1, ZenonT(60) DEF CtrlOps
  <2>3. CLEARERR(READAUX) = <<[Ctrl(191) EXCEPT !.clr = TRUE]>>
    BY DEF CLEARERR, READAUX
  <2> QED
    BY <1>0, <2>2, <2>3, OneOp
<1>7. ASSUME NEW n \in Nat \ {24}, NEW id \in FIFOs PROVE FIFO_OP(n, id) \in Seq(Plain)
  <2>1. [Ctrl(n) EXCEPT !.clr = TRUE, !.fifo = TRUE, !.id = id] \in CtrlOps
    BY DEF CtrlOps, Ctrl
  <2> QED
    BY <1>0, <2>1, OneOp DEF FIFO_OP
<1>8. ASSUME NEW id \in FIFOs PROVE Fifo(id) \in Seq(Plain) /\ Len(Fifo(id)) = BLKWORDS
  <2>1. [op |-> "get", id |-> id] \in Plain
    BY <1>0 DEF GetOps
  <2> QED
    BY <2>1, CardAssumption DEF Fifo
<1> QED
  BY <1>1, <1>3, <1>4, <1>5, <1>6, <1>7, <1>8

(* The accesses that the program has, each a sequence of plain ones. *)
LEMMA Numbered ==
    /\ \A v \in {0, 1, 2, 3, 4, 256, 421, 512, 513, 769, 867, 1793, HCS} : Set(v) \in Seq(Plain)
    /\ \A n \in {0, 1, 8, 13, 41, 55, 58} : CMD(n) \in Seq(Plain) /\ READREG(n) \in Seq(Plain)
                                 /\ CLEARERR(CMD(n)) \in Seq(Plain) /\ CLEARERR(READREG(n)) \in Seq(Plain)
    /\ \A n \in {9, 10, 17, 51} : FIFO_OP(n, 0) \in Seq(Plain) /\ FIFO_OP(n, 1) \in Seq(Plain)
    /\ SETAUX \in Seq(Plain) /\ READAUX \in Seq(Plain) /\ CLEARERR(READAUX) \in Seq(Plain) /\ WAIT \in Seq(Plain)
    /\ Fifo(0) \in Seq(Plain) /\ Fifo(1) \in Seq(Plain)
<1>1. 0 \in FIFOs /\ 1 \in FIFOs
  BY DEF FIFOs
<1>2. HCS \in Nat
  BY DEF HCS
<1>3. \A v \in {0, 1, 2, 3, 4, 256, 421, 512, 513, 769, 867, 1793, HCS} : v \in Nat
  BY <1>2
<1>4. \A n \in {0, 1, 8, 13, 41, 55, 58} : n \in Nat \ {17, 24}
  OBVIOUS
<1>5. \A n \in {9, 10, 17, 51} : n \in Nat \ {24}
  OBVIOUS
<1>6. ASSUME NEW v \in {0, 1, 2, 3, 4, 256, 421, 512, 513, 769, 867, 1793, HCS} PROVE Set(v) \in Seq(Plain)
  <2>1. v \in Nat
    BY <1>3
  <2> QED
    BY <2>1, Pieces
<1>7. \A n \in {0, 1, 8, 13, 41, 55, 58} : CMD(n) \in Seq(Plain) /\ READREG(n) \in Seq(Plain)
                                 /\ CLEARERR(CMD(n)) \in Seq(Plain) /\ CLEARERR(READREG(n)) \in Seq(Plain)
  BY <1>4, Pieces, Zenon
<1>8. \A n \in {9, 10, 17, 51} : FIFO_OP(n, 0) \in Seq(Plain) /\ FIFO_OP(n, 1) \in Seq(Plain)
  BY <1>1, <1>5, Pieces, Zenon
<1> QED
  BY <1>1, <1>6, <1>7, <1>8, Pieces

(* Two sequences of plain accesses, one after the other. *)
LEMMA JoinedPlain == \A s, t \in Seq(Plain) : s \o t \in Seq(Plain)
  BY ConcatProperties

\* A sector that is read, and read back, makes plain accesses only.
LEMMA ReadSeq ==
    ASSUME NEW s \in {0, 1, 2, 3, 4}
    PROVE  READ_SECTOR(s, 0) \in Seq(Plain) /\ READ_SECTOR(s, 0) \o WAIT \in Seq(Plain) /\ ReadBack(s) \in Seq(Plain) /\ READ_SECTOR(s, 1) \in Seq(Plain)
<1>1. READ_SECTOR(s, 0) \in Seq(Plain) /\ READ_SECTOR(s, 1) \in Seq(Plain)
  <2>1. s \in Nat
    OBVIOUS
  <2>2. Set(s) \in Seq(Plain)
    BY <2>1, Pieces
  <2>3. FIFO_OP(17, 0) \in Seq(Plain) /\ FIFO_OP(17, 1) \in Seq(Plain)
    BY Numbered
  <2> QED
    BY <2>2, <2>3, JoinedPlain, Zenon DEF READ_SECTOR
<1>2. READ_SECTOR(s, 0) \o WAIT \in Seq(Plain)
  BY <1>1, Numbered, JoinedPlain
<1> QED
  BY <1>1, <1>2, Numbered, JoinedPlain DEF ReadBack

\* The start goes back in one place, to ask the card again whether it is ready.
LEMMA StartupSeq == Startup \in Seq(Early)
<1>1. Idle41 \in Seq(Plain)
  BY Numbered, JoinedPlain DEF Idle41
<1>2. \A s \in Seq(Plain) : s \in Seq(Early)
  BY DEF Early
<1>3. Len(Idle41) \in Nat
  BY <1>1, LenProperties
<1>4. [op |-> "while1", back |-> Len(Idle41)] \in Early
  BY <1>3 DEF Early, WhileOps
<1>5. <<[op |-> "while1", back |-> Len(Idle41)]>> \in Seq(Early)
  BY <1>4, OneOp
<1> DEFINE a == Set(0) \o CLEARERR(READAUX) \o Set(0) \o CMD(0) \o WAIT
           b == a \o Set(769) \o Set(867) \o SETAUX \o READAUX \o Set(1793) \o SETAUX \o READAUX
           c == b \o Set(HCS) \o CMD(1) \o WAIT \o Set(421) \o READREG(8) \o WAIT
           w == <<[op |-> "while1", back |-> Len(Idle41)]>>
<1>6. a \in Seq(Plain)
  BY Numbered, JoinedPlain
<1>7. b \in Seq(Plain)
  <2> HIDE DEF a
  <2> QED
    BY <1>6, Numbered, JoinedPlain
<1>8. c \in Seq(Plain)
  <2> HIDE DEF b
  <2> QED
    BY <1>7, Numbered, JoinedPlain
<1>9. Startup = c \o Idle41 \o w \o Set(0) \o READREG(58) \o WAIT
  BY Zenon DEF Startup
<1>10. c \o Idle41 \in Seq(Early) /\ Set(0) \in Seq(Early) /\ READREG(58) \in Seq(Early) /\ WAIT \in Seq(Early)
  <2> HIDE DEF c
  <2> QED
    BY <1>1, <1>2, <1>8, Numbered, JoinedPlain
<1> HIDE DEF c, w
<1>11. w \in Seq(Early)
  BY <1>5 DEF w
<1>12. \A s, t \in Seq(Early) : s \o t \in Seq(Early)
  BY ConcatProperties
<1> QED
  BY <1>9, <1>10, <1>11, <1>12

-----------------------------------------------------------------------------
(* Where the program stands. *)

\* The program up to the first writing of a FIFO.
Before == Startup \o CsdCidAndStatus \o CidAgainAndScr \o ReadSectors
Base == Len(Before)

\* The sector is put together and written.
Writing == Set(1793) \o SETAUX \o Fill(0) \o SETAUX \o Fill(1) \o Set(2) \o WRITEOP(24)
WriteOps == {WRITEOP(24)[1]}
PutOps == [op : {"put"}, id : FIFOs]
AllOps == Early \union Late \union WriteOps \union PutOps

\* What a concatenation is, element by element.
LEMMA Concat ==
    ASSUME NEW S, NEW s \in Seq(S), NEW t \in Seq(S)
    PROVE  /\ s \o t \in Seq(S) /\ Len(s \o t) = Len(s) + Len(t) /\ Len(s) \in Nat /\ Len(t) \in Nat
           /\ \A i \in 1..Len(s) : (s \o t)[i] = s[i]
           /\ \A j \in 1..Len(t) : (s \o t)[Len(s) + j] = t[j]
OBVIOUS

\* The element after a sequence.
LEMMA Second ==
    ASSUME NEW S, NEW s \in Seq(S), NEW t \in Seq(S), NEW j \in 1..Len(t)
    PROVE  (s \o t)[Len(s) + j] = t[j]
OBVIOUS

\* The first part of a sequence is what it was.
LEMMA First ==
    ASSUME NEW S, NEW s \in Seq(S), NEW t \in Seq(S), NEW i \in 1..Len(s)
    PROVE  (s \o t)[i] = s[i]
OBVIOUS

\* The same, for pieces of the program.
LEMMA Joined ==
    \A s \in Seq(AllOps), t \in Seq(AllOps) :
        /\ s \o t \in Seq(AllOps) /\ Len(s \o t) = Len(s) + Len(t)
        /\ \A i \in 1..Len(s) : (s \o t)[i] = s[i]
        /\ \A j \in 1..Len(t) : (s \o t)[Len(s) + j] = t[j]
OBVIOUS

\* One access more.
LEMMA OneMore ==
    ASSUME NEW S, NEW s \in Seq(S), NEW t \in Seq(S), NEW m \in Nat, Len(s) = m, Len(t) = 1
    PROVE  /\ s \o t \in Seq(S) /\ Len(s \o t) = m + 1
           /\ \A i \in 1..m : (s \o t)[i] = s[i]
           /\ (s \o t)[m + 1] = t[1]
<1>1. s \o t \in Seq(S) /\ Len(s \o t) = Len(s) + Len(t)
  BY Concat
<1>2. ASSUME NEW i \in 1..m PROVE (s \o t)[i] = s[i]
  <2>1. i \in 1..Len(s)
    OBVIOUS
  <2> QED
    BY <2>1, First
<1>3. (s \o t)[m + 1] = t[1]
  <2>1. PICK j \in 1..Len(t) : j = 1
    OBVIOUS
  <2>2. (s \o t)[Len(s) + j] = t[j]
    BY Second
  <2> QED
    BY <2>1, <2>2
<1> QED
  BY <1>1, <1>2, <1>3

\* Pieces may be joined in any order.
LEMMA Assoc == \A s, t, u \in Seq(Early) : s \o (t \o u) = (s \o t) \o u
OBVIOUS

\* Pieces of the first half of the program make one.
LEMMA JoinedOps == \A s, t \in Seq(Early) : s \o t \in Seq(Early)
  BY ConcatProperties

\* Plain accesses may stand in either half.
LEMMA PlainOps == \A s \in Seq(Plain) : s \in Seq(Early) /\ s \in Seq(Late)
  BY DEF Early, Late

\* The last read before the writing ends with the reading of its FIFO.
LEMMA BeforeIs ==
    /\ Before \in Seq(Early) /\ Base \in Nat /\ Base > BLKWORDS
    /\ Before[Base - BLKWORDS] = [op |-> "wait"]
    /\ \A i \in (Base - BLKWORDS + 1)..Base : Before[i].op = "get"
<1> DEFINE a == Set(513) \o SETAUX \o READAUX \o Set(0) \o FIFO_OP(9, 0) \o WAIT
           b == a \o Set(513) \o SETAUX \o READAUX \o Set(0) \o FIFO_OP(10, 1) \o Fifo(0) \o WAIT
           c == Set(512) \o SETAUX \o Set(0) \o FIFO_OP(10, 1) \o WAIT \o Fifo(1)
           r == Set(1793) \o SETAUX \o ReadBack(0) \o ReadBack(1) \o ReadBack(2) \o ReadBack(3)
           q == READ_SECTOR(4, 0)
           m == Startup \o CsdCidAndStatus \o CidAgainAndScr
<1>1. CsdCidAndStatus \in Seq(Plain)
  <2>1. a \in Seq(Plain)
    BY Numbered, JoinedPlain
  <2>2. b \in Seq(Plain)
    <3> HIDE DEF a
    <3> QED
      BY <2>1, Numbered, JoinedPlain
  <2>3. CsdCidAndStatus = b \o Set(0) \o CLEARERR(READREG(13)) \o Fifo(1) \o WAIT
    BY Zenon DEF CsdCidAndStatus
  <2> HIDE DEF b
  <2> QED
    BY <2>2, <2>3, Numbered, JoinedPlain
<1>2. CidAgainAndScr \in Seq(Plain)
  <2>1. c \in Seq(Plain)
    BY Numbered, JoinedPlain
  <2>2. CidAgainAndScr = c \o Set(256) \o SETAUX \o Set(0) \o CLEARERR(CMD(55)) \o WAIT \o Set(0) \o FIFO_OP(51, 0) \o WAIT \o Fifo(0)
    BY Zenon DEF CidAgainAndScr
  <2> HIDE DEF c
  <2> QED
    BY <2>1, <2>2, Numbered, JoinedPlain
<1>3. r \in Seq(Plain) /\ q \in Seq(Plain) /\ WAIT \in Seq(Plain) /\ Fifo(0) \in Seq(Plain)
  BY Numbered, ReadSeq, JoinedPlain
<1>4. Before = m \o (r \o ((q \o WAIT) \o Fifo(0)))
  BY Zenon DEF Before, ReadSectors, ReadBack
<1>5. m \in Seq(Early)
  BY <1>1, <1>2, StartupSeq, PlainOps, JoinedOps
<1>6. r \in Seq(Early) /\ q \in Seq(Early) /\ WAIT \in Seq(Early) /\ Fifo(0) \in Seq(Early)
  BY <1>3, PlainOps
<1> HIDE DEF m, r, q
<1> DEFINE p == m \o r
           x == p \o q
           y == x \o WAIT
<1>7. p \in Seq(Early) /\ x \in Seq(Early) /\ y \in Seq(Early) /\ q \o WAIT \in Seq(Early) /\ (q \o WAIT) \o Fifo(0) \in Seq(Early)
  BY <1>5, <1>6, JoinedOps
<1>8. Before = y \o Fifo(0)
  <2>1. m \o (r \o ((q \o WAIT) \o Fifo(0))) = p \o ((q \o WAIT) \o Fifo(0))
    <3> DEFINE z == (q \o WAIT) \o Fifo(0)
    <3>1. z \in Seq(Early)
      BY <1>7
    <3> HIDE DEF z
    <3>2. m \o (r \o z) = (m \o r) \o z
      BY <1>5, <1>6, <3>1, Assoc, ZenonT(60)
    <3> QED
      BY <3>2 DEF z
  <2>2. p \o ((q \o WAIT) \o Fifo(0)) = (p \o (q \o WAIT)) \o Fifo(0)
    <3> DEFINE w == q \o WAIT
    <3>1. p \in Seq(Early) /\ w \in Seq(Early) /\ Fifo(0) \in Seq(Early)
      BY <1>6, <1>7
    <3> HIDE DEF p, w
    <3>2. p \o (w \o Fifo(0)) = (p \o w) \o Fifo(0)
      BY <3>1, Assoc, Zenon
    <3> QED
      BY <3>2 DEF w
  <2>3. p \o (q \o WAIT) = (p \o q) \o WAIT
    BY <1>6, <1>7, Assoc, SMTT(60)
  <2> QED
    BY <1>4, <2>1, <2>2, <2>3, Zenon
<1>9. Len(WAIT) = 1 /\ WAIT[1] = [op |-> "wait"]
  BY DEF WAIT
<1>10. Len(Fifo(0)) = BLKWORDS /\ \A i \in 1..BLKWORDS : Fifo(0)[i].op = "get"
  BY CardAssumption DEF Fifo
<1>11. Len(y) = Len(x) + 1 /\ Len(x) \in Nat /\ y[Len(x) + 1] = [op |-> "wait"]
  BY <1>6, <1>7, <1>9, OneMore, SMTT(60)
<1> HIDE DEF y
<1>12. Len(Before) = Len(y) + BLKWORDS /\ \A i \in 1..Len(y) : Before[i] = y[i]
  BY <1>6, <1>7, <1>8, <1>10, Concat
<1>13. \A j \in 1..BLKWORDS : Before[Len(y) + j] = Fifo(0)[j]
  BY <1>6, <1>7, <1>8, <1>10, Concat
<1>14. Before \in Seq(Early)
  BY <1>6, <1>7, <1>8, JoinedOps
<1>15. BLKWORDS \in Nat /\ BLKWORDS > 1
  BY CardAssumption
<1>16. Base = Len(x) + 1 + BLKWORDS
  BY <1>11, <1>12 DEF Base
<1>17. Before[Base - BLKWORDS] = [op |-> "wait"]
  BY <1>11, <1>12, <1>15, <1>16
<1>18. ASSUME NEW i \in (Base - BLKWORDS + 1)..Base PROVE Before[i].op = "get"
  <2>1. i - Len(y) \in 1..BLKWORDS /\ Len(y) + (i - Len(y)) = i
    BY <1>11, <1>15, <1>16
  <2> QED
    BY <1>10, <1>13, <2>1
<1> QED
  BY <1>11, <1>14, <1>15, <1>16, <1>17, <1>18

\* What is done access by access from there.
LEMMA WritingIs ==
    /\ Writing \in Seq(AllOps) /\ Len(Writing) = 2 * BLKWORDS + 5
    /\ Writing[1].op = "data" /\ Writing[2] = Ctrl(255)
    /\ \A i \in 3..(BLKWORDS + 2) : Writing[i] = [op |-> "put", id |-> 0]
    /\ Writing[BLKWORDS + 3] = Ctrl(255)
    /\ \A i \in (BLKWORDS + 4)..(2 * BLKWORDS + 3) : Writing[i] = [op |-> "put", id |-> 1]
    /\ Writing[2 * BLKWORDS + 4].op = "data" /\ Writing[2 * BLKWORDS + 5] = WRITEOP(24)[1]
<1>0. BLKWORDS \in Nat /\ BLKWORDS > 1
  BY CardAssumption
<1>1. /\ Set(1793) \in Seq(AllOps) /\ Len(Set(1793)) = 1 /\ Set(1793)[1].op = "data"
      /\ Set(2) \in Seq(AllOps) /\ Len(Set(2)) = 1 /\ Set(2)[1].op = "data"
  <2>1. [op |-> "data", v |-> 1793] \in AllOps /\ [op |-> "data", v |-> 2] \in AllOps
    BY DEF AllOps, Early, Plain, DataOps
  <2> QED
    BY <2>1, OneOp DEF Set
<1>2. SETAUX \in Seq(AllOps) /\ Len(SETAUX) = 1 /\ SETAUX[1] = Ctrl(255)
  <2>1. Ctrl(255) \in AllOps
    BY DEF AllOps, Early, Plain, CtrlOps, Ctrl, FIFOs
  <2> QED
    BY <2>1, OneOp DEF SETAUX
<1>3. ASSUME NEW id \in FIFOs
      PROVE  Fill(id) \in Seq(AllOps) /\ Len(Fill(id)) = BLKWORDS /\ \A i \in 1..BLKWORDS : Fill(id)[i] = [op |-> "put", id |-> id]
  <2>1. [op |-> "put", id |-> id] \in AllOps
    BY DEF AllOps, PutOps
  <2> QED
    BY <1>0, <2>1 DEF Fill
<1>4. WRITEOP(24) \in Seq(AllOps) /\ Len(WRITEOP(24)) = 1
  <2>1. WRITEOP(24)[1] \in AllOps
    BY DEF AllOps, WriteOps
  <2>2. WRITEOP(24) = <<WRITEOP(24)[1]>>
    BY DEF WRITEOP
  <2> QED
    BY <2>1, <2>2, OneOp
<1>5. /\ Fill(0) \in Seq(AllOps) /\ Len(Fill(0)) = BLKWORDS /\ \A i \in 1..BLKWORDS : Fill(0)[i] = [op |-> "put", id |-> 0]
      /\ Fill(1) \in Seq(AllOps) /\ Len(Fill(1)) = BLKWORDS /\ \A i \in 1..BLKWORDS : Fill(1)[i] = [op |-> "put", id |-> 1]
  BY <1>3 DEF FIFOs
<1> DEFINE a == Set(1793) \o SETAUX
           b == a \o Fill(0)
           c == b \o SETAUX
           d == c \o Fill(1)
           e == d \o Set(2)
<1>6. Writing = e \o WRITEOP(24)
  BY Zenon DEF Writing
<1>7. a \in Seq(AllOps) /\ Len(a) = 2 /\ a[1] = Set(1793)[1] /\ a[2] = SETAUX[1]
  BY <1>1, <1>2, Concat
<1> HIDE DEF a
<1>8. /\ b \in Seq(AllOps) /\ Len(b) = 2 + BLKWORDS
      /\ (\A i \in 1..2 : b[i] = a[i]) /\ (\A j \in 1..BLKWORDS : b[2 + j] = Fill(0)[j])
  <2>1. PICK f, m : f = Fill(0) /\ m = 2
    OBVIOUS
  <2>2. a \in Seq(AllOps) /\ f \in Seq(AllOps) /\ m \in Nat /\ BLKWORDS \in Nat /\ Len(a) = m /\ Len(f) = BLKWORDS
    BY <1>0, <1>5, <1>7, <2>1
  <2>3. b = a \o f
    BY <2>1
  <2> HIDE DEF b
  <2>4. /\ b \in Seq(AllOps) /\ Len(b) = m + BLKWORDS
        /\ (\A i \in 1..m : b[i] = a[i]) /\ (\A j \in 1..BLKWORDS : b[m + j] = f[j])
    BY <2>2, <2>3, Joined, Zenon
  <2> QED
    BY <2>1, <2>4, Zenon
<1> HIDE DEF b
<1>9. /\ c \in Seq(AllOps) /\ Len(c) = 2 + BLKWORDS + 1
      /\ (\A i \in 1..(2 + BLKWORDS) : c[i] = b[i]) /\ c[2 + BLKWORDS + 1] = SETAUX[1]
  <2>1. 2 + BLKWORDS \in Nat
    BY <1>0
  <2> QED
    BY <1>2, <1>8, <2>1, OneMore
<1> HIDE DEF c
<1>10. /\ d \in Seq(AllOps) /\ Len(d) = 2 + BLKWORDS + 1 + BLKWORDS
       /\ (\A i \in 1..(2 + BLKWORDS + 1) : d[i] = c[i]) /\ (\A j \in 1..BLKWORDS : d[2 + BLKWORDS + 1 + j] = Fill(1)[j])
  <2>1. PICK f, m : f = Fill(1) /\ m = 2 + BLKWORDS + 1
    OBVIOUS
  <2>2. c \in Seq(AllOps) /\ f \in Seq(AllOps) /\ m \in Nat /\ BLKWORDS \in Nat /\ Len(c) = m /\ Len(f) = BLKWORDS
    BY <1>0, <1>5, <1>9, <2>1
  <2>3. d = c \o f
    BY <2>1
  <2> HIDE DEF d
  <2>4. /\ d \in Seq(AllOps) /\ Len(d) = m + BLKWORDS
        /\ (\A i \in 1..m : d[i] = c[i]) /\ (\A j \in 1..BLKWORDS : d[m + j] = f[j])
    BY <2>2, <2>3, Joined, Zenon
  <2> QED
    BY <2>1, <2>4, Zenon
<1> HIDE DEF d
<1>11. /\ e \in Seq(AllOps) /\ Len(e) = 2 + BLKWORDS + 1 + BLKWORDS + 1
       /\ (\A i \in 1..(2 + BLKWORDS + 1 + BLKWORDS) : e[i] = d[i]) /\ e[2 + BLKWORDS + 1 + BLKWORDS + 1] = Set(2)[1]
  <2>1. 2 + BLKWORDS + 1 + BLKWORDS \in Nat
    BY <1>0
  <2> QED
    BY <1>1, <1>10, <2>1, OneMore
<1> HIDE DEF e
<1>12. /\ Writing \in Seq(AllOps) /\ Len(Writing) = 2 * BLKWORDS + 5
       /\ (\A i \in 1..(2 * BLKWORDS + 4) : Writing[i] = e[i]) /\ Writing[2 * BLKWORDS + 5] = WRITEOP(24)[1]
  <2>1. 2 + BLKWORDS + 1 + BLKWORDS + 1 \in Nat
    BY <1>0
  <2>2. /\ Writing \in Seq(AllOps) /\ Len(Writing) = (2 + BLKWORDS + 1 + BLKWORDS + 1) + 1
        /\ (\A i \in 1..(2 + BLKWORDS + 1 + BLKWORDS + 1) : Writing[i] = e[i])
        /\ Writing[(2 + BLKWORDS + 1 + BLKWORDS + 1) + 1] = WRITEOP(24)[1]
    BY <1>4, <1>6, <1>11, <2>1, OneMore
  <2> QED
    BY <1>0, <2>2
<1>13. /\ \A i \in 1..2 : Writing[i] = a[i]
       /\ Writing[BLKWORDS + 3] = SETAUX[1] /\ Writing[2 * BLKWORDS + 4] = Set(2)[1]
  <2>1. ASSUME NEW i \in 1..(BLKWORDS + 2)
        PROVE  /\ i \in 1..(2 + BLKWORDS) /\ i \in 1..(2 + BLKWORDS + 1) /\ i \in 1..(2 + BLKWORDS + 1 + BLKWORDS)
               /\ i \in 1..(2 * BLKWORDS + 4)
    BY <1>0
  <2>2. ASSUME NEW i \in 1..2 PROVE Writing[i] = a[i]
    <3>1. i \in 1..(BLKWORDS + 2)
      BY <1>0
    <3>2. Writing[i] = e[i] /\ e[i] = d[i] /\ d[i] = c[i] /\ c[i] = b[i]
      BY <1>9, <1>10, <1>11, <1>12, <2>1, <3>1
    <3> QED
      BY <1>8, <3>2
  <2>3. Writing[BLKWORDS + 3] = SETAUX[1]
    <3>1. PICK k : k = 2 + BLKWORDS + 1
      OBVIOUS
    <3>2. k = BLKWORDS + 3 /\ k \in 1..(2 + BLKWORDS + 1) /\ k \in 1..(2 + BLKWORDS + 1 + BLKWORDS) /\ k \in 1..(2 * BLKWORDS + 4)
      BY <1>0, <3>1
    <3>3. Writing[k] = e[k] /\ e[k] = d[k] /\ d[k] = c[k]
      BY <1>10, <1>11, <1>12, <3>2
    <3>4. c[k] = SETAUX[1]
      BY <1>9, <3>1, Zenon
    <3> QED
      BY <3>2, <3>3, <3>4
  <2>4. Writing[2 * BLKWORDS + 4] = Set(2)[1]
    <3>1. PICK k : k = 2 + BLKWORDS + 1 + BLKWORDS + 1
      OBVIOUS
    <3>2. k = 2 * BLKWORDS + 4 /\ k \in 1..(2 * BLKWORDS + 4)
      BY <1>0, <3>1
    <3>3. Writing[k] = e[k]
      BY <1>12, <3>2
    <3>4. e[k] = Set(2)[1]
      BY <1>11, <3>1, Zenon
    <3> QED
      BY <3>2, <3>3, <3>4
  <2> QED
    BY <2>2, <2>3, <2>4
<1>14. ASSUME NEW i \in 3..(BLKWORDS + 2) PROVE Writing[i] = [op |-> "put", id |-> 0]
  <2>1. /\ i \in 1..(2 + BLKWORDS) /\ i \in 1..(2 + BLKWORDS + 1) /\ i \in 1..(2 + BLKWORDS + 1 + BLKWORDS)
        /\ i \in 1..(2 * BLKWORDS + 4) /\ i - 2 \in 1..BLKWORDS /\ 2 + (i - 2) = i
    BY <1>0
  <2>2. Writing[i] = b[i]
    BY <1>9, <1>10, <1>11, <1>12, <2>1
  <2>3. b[i] = Fill(0)[i - 2]
    BY <1>8, <2>1
  <2> QED
    BY <1>5, <2>1, <2>2, <2>3
<1>15. ASSUME NEW i \in (BLKWORDS + 4)..(2 * BLKWORDS + 3) PROVE Writing[i] = [op |-> "put", id |-> 1]
  <2> DEFINE j == i - (2 + BLKWORDS + 1)
  <2>1. /\ i \in 1..(2 + BLKWORDS + 1 + BLKWORDS)
        /\ i \in 1..(2 * BLKWORDS + 4) /\ j \in 1..BLKWORDS /\ 2 + BLKWORDS + 1 + j = i
    BY <1>0
  <2> HIDE DEF j
  <2>2. Writing[i] = d[i]
    BY <1>11, <1>12, <2>1
  <2>3. d[i] = Fill(1)[j]
    BY <1>10, <2>1
  <2> QED
    BY <1>5, <2>1, <2>2, <2>3
<1>16. Writing[1].op = "data" /\ Writing[2] = Ctrl(255)
  BY <1>1, <1>2, <1>7, <1>13
<1>17. Writing[BLKWORDS + 3] = Ctrl(255) /\ Writing[2 * BLKWORDS + 4].op = "data"
  BY <1>1, <1>2, <1>13
<1> QED
  BY <1>12, <1>14, <1>15, <1>16, <1>17

\* A program that begins with the writing.
Begins(t) ==
    /\ t \in Seq(AllOps) /\ Len(t) >= 2 * BLKWORDS + 5
    /\ \A i \in 1..(2 * BLKWORDS + 5) : t[i] = Writing[i]
    /\ \A i \in (2 * BLKWORDS + 6)..Len(t) : t[i] \in Late

\* What follows the write of the sector does not move what comes before it.
LEMMA Grows ==
    ASSUME NEW t, NEW u, Begins(t), u \in Seq(Late)
    PROVE  Begins(t \o u)
<1>0. BLKWORDS \in Nat
  BY CardAssumption
<1>1. t \in Seq(AllOps) /\ u \in Seq(AllOps)
  BY DEF Begins, AllOps
<1>2. t \o u \in Seq(AllOps) /\ Len(t \o u) = Len(t) + Len(u) /\ Len(t) \in Nat /\ Len(u) \in Nat
  BY <1>1, Concat
<1>3. ASSUME NEW i \in 1..Len(t) PROVE (t \o u)[i] = t[i]
  BY <1>1, First
<1>4. ASSUME NEW i \in (Len(t) + 1)..(Len(t) + Len(u)) PROVE (t \o u)[i] \in Late
  <2>1. PICK j \in 1..Len(u) : Len(t) + j = i
    <3>1. i - Len(t) \in 1..Len(u) /\ Len(t) + (i - Len(t)) = i
      BY <1>2
    <3> QED
      BY <3>1
  <2>2. (t \o u)[Len(t) + j] = u[j]
    BY <1>1, Second
  <2>3. u[j] \in Late
    OBVIOUS
  <2> QED
    BY <2>1, <2>2, <2>3
<1>5. ASSUME NEW i \in 1..(2 * BLKWORDS + 5) PROVE (t \o u)[i] = Writing[i]
  <2>1. i \in 1..Len(t)
    BY <1>0, <1>2 DEF Begins
  <2> QED
    BY <1>3, <2>1 DEF Begins
<1>6. ASSUME NEW i \in (2 * BLKWORDS + 6)..(Len(t) + Len(u)) PROVE (t \o u)[i] \in Late
  <2>1. CASE i <= Len(t)
    <3>1. i \in 1..Len(t) /\ i \in (2 * BLKWORDS + 6)..Len(t)
      BY <1>0, <1>2, <2>1
    <3> QED
      BY <1>3, <3>1 DEF Begins
  <2>2. CASE i > Len(t)
    <3>1. i \in (Len(t) + 1)..(Len(t) + Len(u))
      BY <1>0, <1>2, <2>2
    <3> QED
      BY <1>4, <3>1
  <2>3. i \in Int /\ Len(t) \in Int
    BY <1>0, <1>2
  <2>4. i <= Len(t) \/ i > Len(t)
    BY <2>3
  <2> QED
    BY <2>1, <2>2, <2>4, Zenon
<1>7. Len(t \o u) >= 2 * BLKWORDS + 5
  BY <1>0, <1>2 DEF Begins
<1> QED
  BY <1>2, <1>5, <1>6, <1>7 DEF Begins

\* The part of the test that writes a sector begins with the FIFOs' filling and the write.
LEMMA WriteSectorIs == Begins(WriteSector)
<1>1. /\ WAIT \in Seq(Late) /\ READ_SECTOR(3, 0) \in Seq(Late) /\ READ_SECTOR(2, 1) \in Seq(Late)
      /\ Again3 \in Seq(Late) /\ Fifo(0) \in Seq(Late) /\ Fifo(1) \in Seq(Late) /\ Set(0) \in Seq(Late) /\ READAUX \in Seq(Late)
  <2>1. Again3 \in Seq(Plain)
    BY ReadSeq DEF Again3
  <2>2. READ_SECTOR(3, 0) \in Seq(Plain) /\ READ_SECTOR(2, 1) \in Seq(Plain)
    BY ReadSeq
  <2>3. Set(0) \in Seq(Plain)
    BY Pieces
  <2> QED
    BY <2>1, <2>2, <2>3, Numbered, PlainOps
<1> DEFINE e == <<[op |-> "iferr", skip |-> Len(Again3)]>>
<1>2. e \in Seq(Late)
  <2>1. Len(Again3) \in Nat
    BY <1>1
  <2>2. [op |-> "iferr", skip |-> Len(Again3)] \in Late
    BY <2>1 DEF Late, ErrOps
  <2> QED
    BY <2>2, OneOp
<1> HIDE DEF e
<1>3. Begins(Writing)
  BY WritingIs, CardAssumption DEF Begins
<1> DEFINE a == Writing \o WAIT
           b == a \o READ_SECTOR(3, 0)
           c == b \o WAIT
           d == c \o e
           f == d \o Again3
           g == f \o READ_SECTOR(2, 1)
           h == g \o Fifo(0)
           i == h \o WAIT
           j == i \o Set(0)
           k == j \o READAUX
<1>4. WriteSector = k \o Fifo(1)
  BY Zenon DEF WriteSector, Writing, e
<1>5. Begins(a)
  BY <1>1, <1>3, Grows
<1> HIDE DEF a
<1>6. Begins(b)
  BY <1>1, <1>5, Grows
<1> HIDE DEF b
<1>7. Begins(c)
  BY <1>1, <1>6, Grows
<1> HIDE DEF c
<1>8. Begins(d)
  BY <1>2, <1>7, Grows
<1> HIDE DEF d
<1>9. Begins(f)
  BY <1>1, <1>8, Grows
<1> HIDE DEF f
<1>10. Begins(g)
  BY <1>1, <1>9, Grows
<1> HIDE DEF g
<1>11. Begins(h)
  BY <1>1, <1>10, Grows
<1> HIDE DEF h
<1>12. Begins(i)
  BY <1>1, <1>11, Grows
<1> HIDE DEF i
<1>13. Begins(j)
  BY <1>1, <1>12, Grows
<1> HIDE DEF j
<1>14. Begins(k)
  BY <1>1, <1>13, Grows
<1> HIDE DEF k
<1> QED
  BY <1>1, <1>4, <1>14, Grows

\* The accesses of the program, by their place.
LEMMA MainIs ==
    /\ Len(main) \in Nat /\ DOMAIN main = 1..Len(main) /\ Len(main) >= Base + 2 * BLKWORDS + 5
    /\ \A i \in 1..Base : main[i] = Before[i] /\ main[i] \in Early
    /\ \A i \in 1..(2 * BLKWORDS + 5) : main[Base + i] = Writing[i]
    /\ \A i \in (Base + 2 * BLKWORDS + 6)..Len(main) : main[i] \in Late
<1>0. BLKWORDS \in Nat /\ Base \in Nat
  BY CardAssumption, BeforeIs
<1>1. main = Before \o WriteSector
  BY Zenon DEF main, Before
<1>2. Before \in Seq(AllOps) /\ WriteSector \in Seq(AllOps)
  BY BeforeIs, WriteSectorIs DEF AllOps, Begins
<1>3. main \in Seq(AllOps) /\ Len(main) = Base + Len(WriteSector) /\ Len(WriteSector) \in Nat
  BY <1>1, <1>2, Concat DEF Base
<1>4. ASSUME NEW i \in 1..Base PROVE main[i] = Before[i] /\ main[i] \in Early
  <2>1. i \in 1..Len(Before)
    BY DEF Base
  <2>2. main[i] = Before[i]
    BY <1>1, <1>2, <2>1, First
  <2>3. Before[i] \in Early
    BY <2>1, BeforeIs
  <2> QED
    BY <2>2, <2>3
<1>5. ASSUME NEW i \in 1..Len(WriteSector) PROVE main[Base + i] = WriteSector[i]
  BY <1>1, <1>2, Second DEF Base
<1>6. ASSUME NEW i \in 1..(2 * BLKWORDS + 5) PROVE main[Base + i] = Writing[i]
  <2>1. i \in 1..Len(WriteSector)
    BY <1>0, <1>3, WriteSectorIs DEF Begins
  <2> QED
    BY <1>5, <2>1, WriteSectorIs DEF Begins
<1>7. ASSUME NEW i \in (Base + 2 * BLKWORDS + 6)..Len(main) PROVE main[i] \in Late
  <2>1. PICK j \in 1..Len(WriteSector) : Base + j = i /\ j \in (2 * BLKWORDS + 6)..Len(WriteSector)
    <3>1. i - Base \in 1..Len(WriteSector) /\ Base + (i - Base) = i /\ i - Base \in (2 * BLKWORDS + 6)..Len(WriteSector)
      BY <1>0, <1>3
    <3> QED
      BY <3>1
  <2>2. main[Base + j] = WriteSector[j]
    BY <1>5
  <2>3. WriteSector[j] \in Late
    BY <2>1, WriteSectorIs DEF Begins
  <2>4. main[i] = main[Base + j]
    BY <2>1, Zenon
  <2> QED
    BY <2>2, <2>3, <2>4, Zenon
<1>8. Len(main) >= Base + 2 * BLKWORDS + 5
  BY <1>0, <1>3, WriteSectorIs DEF Begins
<1>9. Len(main) \in Nat /\ DOMAIN main = 1..Len(main)
  BY <1>3
<1> QED
  BY <1>4, <1>6, <1>7, <1>8, <1>9

(* The card has the simulator's members, whatever is in them. *)
IsCard(c) ==
    c \in [unset : {c.unset}, reset_state : {c.reset_state}, altcmd : {c.altcmd}, powerup : {c.powerup},
           cmdidx : {c.cmdidx}, cmd : {c.cmd}, rspbuf : {c.rspbuf}, rspidx : {c.rspidx}, rspdly : {c.rspdly},
           blkdly : {c.blkdly}, blk : {c.blk}, reading : {c.reading}, token : {c.token}, rx : {c.rx},
           out : {c.out}, accepted : {c.accepted}, failed : {c.failed}]
CardFine(c) ==
    /\ IsCard(c) /\ c.failed \in BOOLEAN /\ c.reading \in BOOLEAN /\ c.altcmd \in BOOLEAN
    /\ c.rspdly \in Nat /\ c.blkdly \in Nat /\ c.rspidx \in Nat
    /\ c.reading => c.token \in BOOLEAN

Units(ws) == {StartToken, CRC(ws)} \union {Word(ws[i]) : i \in DOMAIN ws}

\* An assertion changes the card's mark of failure and nothing else.
LEMMA CheckFine ==
    ASSUME NEW c, CardFine(c), NEW h
    PROVE  /\ IsCard(Check(c, h)) /\ Check(c, h).failed = (c.failed \/ ~h) /\ Check(c, h).failed \in BOOLEAN
           /\ Check(c, h).reading = c.reading /\ Check(c, h).altcmd = c.altcmd /\ Check(c, h).token = c.token
           /\ Check(c, h).rspdly = c.rspdly /\ Check(c, h).blkdly = c.blkdly /\ Check(c, h).rspidx = c.rspidx
           /\ Check(c, h).cmdidx = c.cmdidx /\ Check(c, h).cmd = c.cmd /\ Check(c, h).out = c.out /\ Check(c, h).blk = c.blk
           /\ Check(c, h).accepted = c.accepted /\ Check(c, h).rx = c.rx /\ Check(c, h).rspbuf = c.rspbuf
BY DEF Check, CardFine, IsCard

\* A card that waits for a block: it goes on waiting, takes the block whose CRC this is, or fails.
LEMMA DataOther ==
    ASSUME NEW c, CardFine(c), c.reading, NEW u
    PROVE  LET d == ReceiveData(c, u) IN
           /\ CardFine(d) /\ d.cmdidx = c.cmdidx
           /\ \/ d.reading /\ d.out = Ones /\ d.accepted = c.accepted
              \/ \E ws : u = CRC(ws) /\ d.accepted = ws /\ d.out = Byte(5) /\ ~d.reading
              \/ d.failed
BY DEF ReceiveData, Check, CardFine, IsCard

\* A selected card takes what comes first as its command.
LEMMA NewCommand ==
    ASSUME NEW c, CardFine(c), ~c.reading, c.cmdidx = 0, NEW u
    PROVE  LET d == Receive(c, u) IN
           /\ CardFine(d) /\ d.cmdidx = 6 /\ d.cmd = u /\ d.out = Ones /\ ~d.reading /\ d.accepted = c.accepted
           /\ u.k # "cmd" => d.failed
<1> DEFINE d == Receive(c, u)
<1>1. PICK e : e = Check(c, u.k = "cmd")
  OBVIOUS
<1>2. IsCard(e) /\ e.failed = (c.failed \/ ~(u.k = "cmd")) /\ e.failed \in BOOLEAN
      /\ e.reading = c.reading /\ e.altcmd = c.altcmd /\ e.token = c.token
      /\ e.rspdly = c.rspdly /\ e.blkdly = c.blkdly /\ e.rspidx = c.rspidx /\ e.accepted = c.accepted
  BY <1>1, CheckFine
<1>3. d = [e EXCEPT !.cmd = u, !.cmdidx = 6, !.out = Ones]
  BY <1>1 DEF Receive, CardFine
<1> HIDE DEF d
<1>4. IsCard(d) /\ d.cmd = u /\ d.cmdidx = 6 /\ d.out = Ones
  BY <1>2, <1>3 DEF IsCard
<1>5. d.failed = e.failed /\ d.reading = e.reading /\ d.altcmd = e.altcmd /\ d.token = e.token
      /\ d.rspdly = e.rspdly /\ d.blkdly = e.blkdly /\ d.rspidx = e.rspidx /\ d.accepted = e.accepted
  BY <1>2, <1>3 DEF IsCard
<1>6. CardFine(d)
  BY <1>2, <1>4, <1>5 DEF CardFine
<1> QED
  BY <1>2, <1>4, <1>5, <1>6 DEF CardFine, d

\* A response that is queued is all that changes what the card will say.
LEMMA RespondFine ==
    ASSUME NEW c, CardFine(c), NEW bytes, NEW dly \in Nat
    PROVE  LET d == Respond(c, bytes, dly) IN
           /\ CardFine(d) /\ d.reading = c.reading /\ d.cmdidx = c.cmdidx /\ d.accepted = c.accepted /\ d.out = c.out /\ d.rspidx = c.rspidx
           /\ d.rspbuf = Response(bytes)
BY DEF Respond, CardFine, IsCard

\* A block is queued behind a response of one zero byte.
LEMMA SendBlockFine ==
    ASSUME NEW c, CardFine(c), NEW ws
    PROVE  LET d == SendBlock(c, ws) IN
           /\ CardFine(d) /\ d.reading = c.reading /\ d.cmdidx = c.cmdidx /\ d.accepted = c.accepted /\ d.out = c.out /\ d.rspidx = c.rspidx
           /\ d.rspbuf = Response(<<0>>) /\ d.blk = Block(ws) /\ d.failed = c.failed
BY CardAssumption DEF SendBlock, CardFine, IsCard

\* After an assertion the card is as fine as it was.
LEMMA CheckedFine ==
    ASSUME NEW c, CardFine(c), NEW h
    PROVE  LET d == Check(c, h) IN
           /\ CardFine(d) /\ d.reading = c.reading /\ d.cmdidx = c.cmdidx /\ d.accepted = c.accepted /\ d.out = c.out /\ d.rspidx = c.rspidx
           /\ ~h => d.failed
BY CheckFine DEF CardFine

\* The commands after CMD55: neither a read nor a write is one of them.
LEMMA AltFine ==
    ASSUME NEW c, CardFine(c), NEW n, NEW arg
    PROVE  LET d == AltCommand(c, n, arg) IN
           /\ CardFine(d) /\ d.cmdidx = c.cmdidx /\ d.accepted = c.accepted
           /\ n \in {17, 24} => d.failed
<1> DEFINE d == AltCommand(c, n, arg)
<1>1. CASE n = 41
  <2> DEFINE h == OnlyHCS(arg) /\ c.reset_state \in {"RCVD_CMD8", "RCVD_ACMD41", "RESET_COMPLETE"}
  <2> DEFINE W(e) == [e EXCEPT !.powerup = IF @ = "never" THEN "busy" ELSE @,
                           !.rspbuf[1] = Byte(IF c.powerup # "done" THEN 1 ELSE 0), !.rspdly = 2,
                           !.reset_state = IF c.powerup # "done" THEN "RCVD_ACMD41" ELSE "RESET_COMPLETE"]
  <2>0. d = W(Check(c, h))
    BY <1>1 DEF AltCommand
  <2>1. PICK e : e = Check(c, h) /\ d = W(e)
    BY <2>0, Zenon
  <2>2. CardFine(e) /\ e.cmdidx = c.cmdidx /\ e.accepted = c.accepted
    BY <2>1, CheckedFine
  <2> HIDE DEF d
  <2>3. CardFine(d) /\ d.cmdidx = e.cmdidx /\ d.accepted = e.accepted
    BY <2>1, <2>2, ZenonT(60) DEF CardFine, IsCard
  <2> QED
    BY <1>1, <2>2, <2>3 DEF d
<1>2. CASE n = 51
  <2>1. d = [c EXCEPT !.blk = Block(Scr), !.out = Byte(0)]
    BY <1>2 DEF AltCommand
  <2> HIDE DEF d
  <2>3. CardFine(d) /\ d.cmdidx = c.cmdidx /\ d.accepted = c.accepted
    BY <2>1 DEF CardFine, IsCard
  <2> QED
    BY <1>2, <2>3 DEF d
<1>3. CASE n # 41 /\ n # 51
  <2>1. PICK e : e = Check(c, FALSE) /\ d = [e EXCEPT !.rspbuf[1] = Byte(4), !.rspdly = 4]
    BY <1>3 DEF AltCommand
  <2>2. CardFine(e) /\ e.cmdidx = c.cmdidx /\ e.accepted = c.accepted /\ e.failed
    BY <2>1, CheckedFine
  <2> HIDE DEF d
  <2>3. CardFine(d) /\ d.cmdidx = e.cmdidx /\ d.accepted = e.accepted /\ d.failed = e.failed
    BY <2>1, <2>2 DEF CardFine, IsCard
  <2> QED
    BY <2>2, <2>3 DEF d
<1> QED
  BY <1>1, <1>2, <1>3

\* The other commands: a read queues its sector, a write makes the card wait for a block.
LEMMA NormalFine ==
    ASSUME NEW c, CardFine(c), NEW n, NEW arg
    PROVE  LET d == NormalCommand(c, n, arg) IN
           /\ CardFine(d) /\ d.cmdidx = c.cmdidx /\ d.accepted = c.accepted
           /\ n = 17 => /\ d.reading = c.reading /\ d.rspbuf = Response(<<0>>) /\ d.blk = Block(Sector(arg))
                        /\ d.rspidx = c.rspidx /\ d.out = c.out
           /\ n = 24 => d.reading /\ ~d.token /\ d.out = Byte(0)
<1> DEFINE d == NormalCommand(c, n, arg)
<1>1. CASE n = 0
  <2>1. PICK e : e = Respond(c, <<1>>, 4) /\ d = [e EXCEPT !.reset_state = "CMD0_IDLE"]
    BY <1>1 DEF NormalCommand
  <2>2. CardFine(e) /\ e.cmdidx = c.cmdidx /\ e.accepted = c.accepted
    BY <2>1, RespondFine
  <2> HIDE DEF d
  <2>3. CardFine(d) /\ d.cmdidx = e.cmdidx /\ d.accepted = e.accepted
    BY <2>1, <2>2 DEF CardFine, IsCard
  <2> QED
    BY <1>1, <2>2, <2>3 DEF d
<1>2. CASE n = 1
  <2>1. PICK e : e = Check(c, OnlyHCS(arg)) /\ d = Respond(e, <<2>>, 4)
    BY <1>2 DEF NormalCommand
  <2>2. CardFine(e) /\ e.cmdidx = c.cmdidx /\ e.accepted = c.accepted
    BY <2>1, CheckedFine
  <2> HIDE DEF d
  <2>3. CardFine(d) /\ d.cmdidx = e.cmdidx /\ d.accepted = e.accepted
    BY <2>1, <2>2, RespondFine
  <2> QED
    BY <1>2, <2>2, <2>3 DEF d
<1>3. CASE n = 8
  <2> DEFINE h == arg < 4096 /\ c.reset_state \in {"CMD0_IDLE", "RCVD_CMD8"}
             bytes == <<0, 0, 0, IF (arg \div 256) % 16 = 1 THEN 1 ELSE 0, arg % 256>>
  <2>1. PICK e, f : e = Check(c, h) /\ f = Respond(e, bytes, 4) /\ d = [f EXCEPT !.reset_state = "RCVD_CMD8"]
    BY <1>3 DEF NormalCommand
  <2>2. CardFine(e) /\ e.cmdidx = c.cmdidx /\ e.accepted = c.accepted
    BY <2>1, CheckedFine
  <2> HIDE DEF d, bytes
  <2>3. CardFine(f) /\ f.cmdidx = e.cmdidx /\ f.accepted = e.accepted
    BY <2>1, <2>2, RespondFine
  <2>4. CardFine(d) /\ d.cmdidx = f.cmdidx /\ d.accepted = f.accepted
    BY <2>1, <2>3 DEF CardFine, IsCard
  <2> QED
    BY <1>3, <2>2, <2>3, <2>4 DEF d
<1>4. CASE n \in {9, 10}
  <2>0. d = SendBlock(Operating(c), Csd) \/ d = SendBlock(Operating(c), Cid)
    <3>1. CASE n = 9
      BY <3>1 DEF NormalCommand
    <3>2. CASE n = 10
      BY <3>2 DEF NormalCommand
    <3> QED
      BY <1>4, <3>1, <3>2
  <2>1. PICK e, ws : e = Operating(c) /\ d = SendBlock(e, ws)
    BY <2>0, Zenon
  <2>2. CardFine(e) /\ e.cmdidx = c.cmdidx /\ e.accepted = c.accepted
    BY <2>1, CheckedFine DEF Operating
  <2> HIDE DEF d
  <2>3. CardFine(d) /\ d.cmdidx = e.cmdidx /\ d.accepted = e.accepted
    BY <2>1, <2>2, SendBlockFine
  <2> QED
    BY <1>4, <2>2, <2>3 DEF d
<1>5. CASE n = 17
  <2>1. PICK e, f : e = Operating(c) /\ f = Check(e, arg < NSECTORS) /\ d = SendBlock(f, Sector(arg))
    BY <1>5 DEF NormalCommand
  <2>2. CardFine(e) /\ e.cmdidx = c.cmdidx /\ e.accepted = c.accepted /\ e.reading = c.reading /\ e.rspidx = c.rspidx /\ e.out = c.out
    BY <2>1, CheckedFine DEF Operating
  <2>3. CardFine(f) /\ f.cmdidx = e.cmdidx /\ f.accepted = e.accepted /\ f.reading = e.reading /\ f.rspidx = e.rspidx /\ f.out = e.out
    BY <2>1, <2>2, CheckedFine
  <2> HIDE DEF d
  <2>4. /\ CardFine(d) /\ d.cmdidx = f.cmdidx /\ d.accepted = f.accepted /\ d.reading = f.reading /\ d.rspidx = f.rspidx /\ d.out = f.out
        /\ d.rspbuf = Response(<<0>>) /\ d.blk = Block(Sector(arg))
    BY <2>1, <2>3, SendBlockFine
  <2> QED
    BY <1>5, <2>2, <2>3, <2>4 DEF d
<1>6. CASE n = 24
  <2>1. d = [c EXCEPT !.rspbuf = Response(<<>>), !.reading = TRUE, !.token = FALSE, !.out = Byte(0)]
    BY <1>6 DEF NormalCommand
  <2> HIDE DEF d
  <2>2. CardFine(d) /\ d.cmdidx = c.cmdidx /\ d.accepted = c.accepted /\ d.reading /\ ~d.token /\ d.out = Byte(0)
    BY <2>1 DEF CardFine, IsCard
  <2> QED
    BY <1>6, <2>2 DEF d
<1>7. CASE n = 13
  <2>1. PICK e : e = Operating(c) /\ d = Respond(e, <<0, 0>>, 4)
    BY <1>7 DEF NormalCommand
  <2>2. CardFine(e) /\ e.cmdidx = c.cmdidx /\ e.accepted = c.accepted
    BY <2>1, CheckedFine DEF Operating
  <2> HIDE DEF d
  <2>3. CardFine(d) /\ d.cmdidx = e.cmdidx /\ d.accepted = e.accepted
    BY <2>1, <2>2, RespondFine
  <2> QED
    BY <1>7, <2>2, <2>3 DEF d
<1>8. CASE n = 55
  <2>0. d = [Respond(c, <<0>>, 2) EXCEPT !.altcmd = TRUE]
    BY <1>8 DEF NormalCommand
  <2>1. PICK e : e = Respond(c, <<0>>, 2) /\ d = [e EXCEPT !.altcmd = TRUE]
    BY <2>0, Zenon
  <2>2. CardFine(e) /\ e.cmdidx = c.cmdidx /\ e.accepted = c.accepted
    BY <2>1, RespondFine
  <2> HIDE DEF d
  <2>3. CardFine(d) /\ d.cmdidx = e.cmdidx /\ d.accepted = e.accepted
    BY <2>1, <2>2, ZenonT(60) DEF CardFine, IsCard
  <2> QED
    BY <1>8, <2>2, <2>3 DEF d
<1>9. CASE n = 58
  <2>1. PICK e, bytes : e = Respond(c, bytes, 4)
            /\ d = [e EXCEPT !.reset_state = IF @ = "RESET_COMPLETE" THEN "IN_OPERATION" ELSE @]
    BY <1>9, SMTT(60) DEF NormalCommand
  <2>2. CardFine(e) /\ e.cmdidx = c.cmdidx /\ e.accepted = c.accepted
    BY <2>1, RespondFine
  <2> HIDE DEF d
  <2>3. CardFine(d) /\ d.cmdidx = e.cmdidx /\ d.accepted = e.accepted
    BY <2>1, <2>2 DEF CardFine, IsCard
  <2> QED
    BY <1>9, <2>2, <2>3 DEF d
<1>10. CASE n \notin {0, 1, 8, 9, 10, 13, 17, 24, 55, 58}
  <2>0. d = Respond(Check(c, FALSE), <<4>>, 4)
    BY <1>10 DEF NormalCommand
  <2>1. PICK e, bytes : e = Check(c, FALSE) /\ d = Respond(e, bytes, 4)
    BY <2>0, Zenon
  <2>2. CardFine(e) /\ e.cmdidx = c.cmdidx /\ e.accepted = c.accepted
    BY <2>1, CheckedFine
  <2> HIDE DEF d
  <2>3. CardFine(d) /\ d.cmdidx = e.cmdidx /\ d.accepted = e.accepted
    <3>1. 4 \in Nat
      OBVIOUS
    <3> QED
      BY <2>1, <2>2, <3>1, RespondFine, ZenonT(60)
  <2> QED
    BY <1>10, <2>2, <2>3 DEF d
<1> QED
  BY <1>1, <1>2, <1>3, <1>4, <1>5, <1>6, <1>7, <1>8, <1>9, <1>10

\* The card looks at its command: a read or a write does as it says, or an assertion fails.
LEMMA ProcessFine ==
    ASSUME NEW c, CardFine(c), ~c.reading
    PROVE  LET d == Process(c) IN
           /\ CardFine(d) /\ d.cmdidx = 7 /\ d.accepted = c.accepted
           /\ \A s : c.cmd = Command(17, s) =>
                 \/ d.failed
                 \/ /\ ~d.reading /\ d.rspbuf = Response(<<0>>) /\ d.blk = Block(Sector(s))
                    /\ d.rspidx = 0 /\ d.out = Ones
           /\ \A s : c.cmd = Command(24, s) => (d.failed \/ (d.reading /\ ~d.token /\ d.out = Byte(0)))
<1> DEFINE n   == c.cmd.v[1]
           arg == c.cmd.v[2]
           d   == Process(c)
<1>1. PICK new : new = [c EXCEPT !.cmdidx = 7, !.rspidx = 0, !.blkdly = 0, !.blk = <<>>, !.altcmd = FALSE, !.out = Ones]
  OBVIOUS
<1>2. CardFine(new) /\ new.cmdidx = 7 /\ new.rspidx = 0 /\ ~new.reading /\ new.out = Ones /\ new.accepted = c.accepted
  BY <1>1 DEF CardFine, IsCard
<1>3. d = IF c.altcmd THEN AltCommand(new, n, arg) ELSE NormalCommand(new, n, arg)
  BY <1>1 DEF Process
<1>4. \A m, s : c.cmd = Command(m, s) => n = m /\ arg = s
  BY DEF Command
<1> HIDE DEF n, arg, d
<1>5. CASE c.altcmd
  <2>1. CardFine(d) /\ d.cmdidx = 7 /\ d.accepted = c.accepted /\ (n \in {17, 24} => d.failed)
    BY <1>2, <1>3, <1>5, AltFine
  <2>2. \A s : c.cmd = Command(17, s) \/ c.cmd = Command(24, s) => d.failed
    BY <1>4, <2>1
  <2>3. \A s : (c.cmd = Command(17, s) => d.failed) /\ (c.cmd = Command(24, s) => d.failed)
    BY <2>2, Zenon
  <2>4. d = Process(c)
    BY DEF d
  <2>5. \A s : c.cmd = Command(17, s) =>
                 \/ d.failed
                 \/ /\ ~d.reading /\ d.rspbuf = Response(<<0>>) /\ d.blk = Block(Sector(s))
                    /\ d.rspidx = 0 /\ d.out = Ones
    BY <2>3, Zenon
  <2>6. \A s : c.cmd = Command(24, s) => (d.failed \/ (d.reading /\ ~d.token /\ d.out = Byte(0)))
    BY <2>3, Zenon
  <2> QED
    BY <2>1, <2>5, <2>6, <2>4, Zenon
<1>6. CASE ~c.altcmd
  <2>1. /\ CardFine(d) /\ d.cmdidx = 7 /\ d.accepted = c.accepted
        /\ n = 17 => ~d.reading /\ d.rspbuf = Response(<<0>>) /\ d.blk = Block(Sector(arg)) /\ d.rspidx = 0 /\ d.out = Ones
        /\ n = 24 => d.reading /\ ~d.token /\ d.out = Byte(0)
    BY <1>2, <1>3, <1>6, NormalFine
  <2> QED
    BY <1>4, <2>1 DEF d
<1> QED
  BY <1>5, <1>6

\* What a card that answers does with a unit.
LEMMA AnswerFine ==
    ASSUME NEW c, CardFine(c), ~c.reading, c.cmdidx = 7, NEW u
    PROVE  LET d == Receive(c, u) IN
           /\ CardFine(d) /\ ~d.reading /\ d.cmdidx = 7 /\ d.accepted = c.accepted /\ d.rspbuf = c.rspbuf
           /\ \/ d.rspidx = c.rspidx /\ d.out = Ones /\ d.blk = c.blk
              \/ c.rspidx < RSPLEN /\ d.rspidx = c.rspidx + 1 /\ d.out = c.rspbuf[c.rspidx + 1] /\ d.blk = c.blk
              \/ c.rspidx > 0 /\ d.rspidx = c.rspidx /\ c.blk # <<>> /\ d.out = Head(c.blk) /\ d.blk = Tail(c.blk)
<1> DEFINE d == Receive(c, u)
<1>1. PICK b : b = [c EXCEPT !.out = Ones]
  OBVIOUS
<1>2. CardFine(b) /\ b.reading = c.reading /\ b.rspidx = c.rspidx /\ b.out = Ones /\ b.blk = c.blk /\ b.rspbuf = c.rspbuf
      /\ b.cmdidx = c.cmdidx /\ b.accepted = c.accepted /\ b.rspdly = c.rspdly /\ b.blkdly = c.blkdly
  BY <1>1 DEF CardFine, IsCard
<1>3. PICK q : q = Check(b, u = Ones)
  OBVIOUS
<1>4. CardFine(q) /\ q.reading = c.reading /\ q.rspidx = c.rspidx /\ q.out = Ones /\ q.blk = c.blk /\ q.rspbuf = c.rspbuf
      /\ q.cmdidx = c.cmdidx /\ q.accepted = c.accepted /\ q.rspdly = c.rspdly /\ q.blkdly = c.blkdly
  BY <1>2, <1>3, CheckFine DEF CardFine
<1>5. d = CASE c.rspdly > 0      -> [q EXCEPT !.rspdly = @ - 1]
            [] c.rspdly = 0 /\ c.rspidx < RSPLEN -> [q EXCEPT !.out = c.rspbuf[c.rspidx + 1], !.rspidx = @ + 1]
            [] c.rspdly = 0 /\ c.rspidx = RSPLEN /\ c.blkdly > 0 -> [q EXCEPT !.blkdly = @ - 1]
            [] OTHER -> IF c.blk # <<>> THEN [q EXCEPT !.out = Head(c.blk), !.blk = Tail(@)] ELSE q
  BY <1>1, <1>3 DEF Receive, Answer, CardFine
<1>6. RSPLEN \in Nat /\ RSPLEN > 0 /\ c.rspdly \in Nat /\ c.rspidx \in Nat /\ c.blkdly \in Nat
  BY CardAssumption DEF CardFine
<1> HIDE DEF d
<1>7. CASE c.rspdly > 0
  <2>1. d = [q EXCEPT !.rspdly = @ - 1]
    BY <1>5, <1>6, <1>7
  <2> QED
    BY <1>4, <1>6, <1>7, <2>1 DEF CardFine, IsCard, d
<1>8. CASE c.rspdly = 0 /\ c.rspidx < RSPLEN
  <2>1. d = [q EXCEPT !.out = c.rspbuf[c.rspidx + 1], !.rspidx = @ + 1]
    BY <1>5, <1>6, <1>8
  <2>2. PICK x : x = c.rspbuf[c.rspidx + 1]
    OBVIOUS
  <2>3. PICK n \in Nat : n = c.rspidx + 1
    BY <1>6
  <2>4. d = [q EXCEPT !.out = x, !.rspidx = n]
    BY <1>4, <2>1, <2>2, <2>3
  <2>5. d.out = x /\ d.rspidx = n /\ d.blk = c.blk /\ d.rspbuf = c.rspbuf /\ d.accepted = c.accepted
        /\ d.cmdidx = c.cmdidx /\ d.reading = c.reading
    BY <1>4, <2>4 DEF CardFine, IsCard
  <2>6. CardFine(d)
    BY <1>4, <2>3, <2>4 DEF CardFine, IsCard
  <2> QED
    BY <1>8, <2>2, <2>3, <2>5, <2>6 DEF d
<1>9. CASE c.rspdly = 0 /\ c.rspidx = RSPLEN /\ c.blkdly > 0
  <2>1. d = [q EXCEPT !.blkdly = @ - 1]
    BY <1>5, <1>6, <1>9
  <2> QED
    BY <1>4, <1>6, <1>9, <2>1 DEF CardFine, IsCard, d
<1>10. CASE c.rspdly = 0 /\ c.rspidx >= RSPLEN /\ ~(c.rspidx = RSPLEN /\ c.blkdly > 0)
  <2>1. d = IF c.blk # <<>> THEN [q EXCEPT !.out = Head(c.blk), !.blk = Tail(@)] ELSE q
    BY <1>5, <1>6, <1>10
  <2>2. CASE c.blk # <<>>
    <3>1. d = [q EXCEPT !.out = Head(c.blk), !.blk = Tail(@)]
      BY <2>1, <2>2
    <3>2. d.out = Head(c.blk) /\ d.rspidx = c.rspidx /\ d.blk = Tail(c.blk) /\ d.rspbuf = c.rspbuf /\ d.accepted = c.accepted
          /\ d.cmdidx = c.cmdidx /\ d.reading = c.reading /\ CardFine(d)
      BY <1>4, <3>1 DEF CardFine, IsCard
    <3> QED
      BY <1>6, <1>10, <2>2, <3>2 DEF d
  <2>3. CASE c.blk = <<>>
    <3>1. d = q
      BY <2>1, <2>3
    <3> QED
      BY <1>4, <3>1 DEF d
  <2> QED
    BY <2>2, <2>3
<1> QED
  BY <1>6, <1>7, <1>8, <1>9, <1>10

\* A block is sent as its own units.
LEMMA BlockUnits == \A s : Block(Sector(s)) \in Seq(Units(Sector(s)))
<1> SUFFICES ASSUME NEW s PROVE Block(Sector(s)) \in Seq(Units(Sector(s)))
  OBVIOUS
<1> DEFINE ws == Sector(s)
           U == Units(ws)
           b == [i \in DOMAIN ws |-> Word(ws[i])]
<1>1. DOMAIN ws = 1..BLKWORDS /\ BLKWORDS \in Nat
  BY CardAssumption DEF Sector
<1>2. StartToken \in U /\ CRC(ws) \in U /\ \A i \in DOMAIN ws : Word(ws[i]) \in U
  BY Zenon DEF Units
<1>3. Block(ws) = (<<StartToken>> \o b) \o <<CRC(ws)>>
  BY DEF Block
<1> HIDE DEF ws, U
<1>4. b \in Seq(U)
  <2>1. b = [i \in 1..BLKWORDS |-> Word(ws[i])] /\ \A i \in 1..BLKWORDS : Word(ws[i]) \in U
    BY <1>1, <1>2
  <2> QED
    BY <1>1, <2>1
<1>5. <<StartToken>> \in Seq(U) /\ <<CRC(ws)>> \in Seq(U)
  <2>1. PICK x, y : x = StartToken /\ y = CRC(ws)
    OBVIOUS
  <2>2. x \in U /\ y \in U
    BY <1>2, <2>1
  <2> QED
    BY <2>1, <2>2, OneOp
<1> HIDE DEF b
<1>6. <<StartToken>> \o b \in Seq(U)
  BY <1>4, <1>5, ConcatProperties
<1>7. Block(ws) \in Seq(U)
  BY <1>3, <1>5, <1>6, ConcatProperties
<1> QED
  BY <1>7 DEF ws, U

\* The response to a read is one zero byte.
LEMMA OneZero ==
    /\ Response(<<0>>)[1] = Byte(0)
    /\ \A i \in 2..RSPLEN : Response(<<0>>)[i] = Ones
<1>1. RSPLEN \in Nat \ {0}
  BY CardAssumption
<1>2. Len(<<0>>) = 1 /\ <<0>>[1] = 0
  OBVIOUS
<1> QED
  BY <1>1, <1>2 DEF Response

IsCtl(c) ==
    c \in [phase : {c.phase}, busy : {c.busy}, err : {c.err}, r1 : {c.r1}, data : {c.data}, lgblklen : {c.lgblklen},
           id : {c.id}, usefifo : {c.usefifo}, wr : {c.wr}, n : {c.n}, arg : {c.arg}, left : {c.left},
           rsp : {c.rsp}, ptr : {c.ptr}, addr : {c.addr}, fifo : {c.fifo}]

RxPhases == {"rxtoken", "rxdata", "rxcrc"}
TxPhases == {"txtoken", "txdata", "txcrc", "txanswer", "txbusy", "txidle"}
Phases   == {"off", "send", "answer"} \union RxPhases \union TxPhases

IsFifo(f) == f = [i \in 1..BLKWORDS |-> f[i]]
FifosFine(c) == c.fifo = [f \in FIFOs |-> c.fifo[f]] /\ \A f \in FIFOs : IsFifo(c.fifo[f])

CtlFine(c) ==
    /\ IsCtl(c) /\ c.id \in FIFOs /\ FifosFine(c) /\ c.phase \in Phases
    /\ c.busy <=> c.phase # "off"
    /\ c.phase = "send" => c.rsp = <<>>
    /\ c.busy /\ c.n = 17 => c.usefifo /\ ~c.wr /\ c.left = 1 /\ c.phase \notin TxPhases /\ (c.phase = "answer" => c.rsp = <<>>)
    /\ c.busy /\ c.n = 24 => /\ c.usefifo /\ c.wr /\ c.left = 1 /\ c.id = 0 /\ c.phase \notin RxPhases
                             /\ (c.phase = "answer" => c.rsp = <<>>)
                             /\ (c.data.from = "tx" => c.phase \in {"txbusy", "txidle"})

\* What no unit on the wires changes.
Kept(d, c) == /\ CtlFine(d) /\ d.n = c.n /\ d.arg = c.arg /\ d.id = c.id /\ d.lgblklen = c.lgblklen
              /\ d.phase # "send"

\* The controller at rest deselects the card and is no longer busy; else nothing changes.
LEMMA Settled ==
    ASSUME NEW c, IsCtl(c)
    PROVE  LET d == Settle(c) IN
           /\ IsCtl(d) /\ d.phase = c.phase /\ d.err = c.err /\ d.data = c.data /\ d.lgblklen = c.lgblklen
           /\ d.id = c.id /\ d.wr = c.wr /\ d.n = c.n /\ d.arg = c.arg /\ d.left = c.left /\ d.rsp = c.rsp /\ d.addr = c.addr
           /\ d.fifo = c.fifo
           /\ c.phase = "off" => ~d.busy
           /\ c.phase # "off" => d.busy = c.busy /\ d.usefifo = c.usefifo
BY DEF Settle, IsCtl

\* After the command the controller waits for the answer.
LEMMA TookSend ==
    ASSUME NEW c, CtlFine(c), c.phase = "send", NEW u
    PROVE  LET d == Settle(Took(c, u)) IN
           /\ Kept(d, c) /\ d.busy /\ d.fifo = c.fifo /\ d.phase = "answer" /\ d.rsp = <<>> /\ d.data = c.data
<1> DEFINE e == Took(c, u)
           d == Settle(e)
<1>1. e = [c EXCEPT !.phase = "answer"]
  BY DEF Took
<1> HIDE DEF e
<1>2. IsCtl(e) /\ e.phase = "answer" /\ e.data = c.data /\ e.lgblklen = c.lgblklen /\ e.busy = c.busy /\ e.usefifo = c.usefifo
      /\ e.id = c.id /\ e.wr = c.wr /\ e.n = c.n /\ e.arg = c.arg /\ e.left = c.left /\ e.rsp = c.rsp /\ e.fifo = c.fifo
  BY <1>1 DEF CtlFine, IsCtl
<1>3. IsCtl(d) /\ d.phase = "answer" /\ d.data = c.data /\ d.lgblklen = c.lgblklen /\ d.busy = c.busy /\ d.usefifo = c.usefifo
      /\ d.id = c.id /\ d.wr = c.wr /\ d.n = c.n /\ d.arg = c.arg /\ d.left = c.left /\ d.rsp = c.rsp /\ d.fifo = c.fifo
  BY <1>2, Settled
<1> HIDE DEF d
<1>4. Kept(d, c) /\ d.busy /\ d.rsp = <<>>
  BY <1>3 DEF Kept, CtlFine, Phases, RxPhases, TxPhases, FifosFine
<1> QED
  BY <1>3, <1>4 DEF d, e

\* While the card says nothing nothing changes; its answer starts the block, if there is one.
LEMMA TookAnswer ==
    ASSUME NEW c, CtlFine(c), c.phase = "answer", NEW u
    PROVE  LET d == Settle(Took(c, u)) IN
           /\ Kept(d, c) /\ d.fifo = c.fifo
           /\ c.rsp = <<>> /\ Bit(Byt(u), 7) => d = c
           /\ c.n \in {17, 24} /\ ~Bit(Byt(u), 7) =>
                 /\ d.data.from = "cmd"
                 /\ d.busy => d.phase = (IF c.n = 24 THEN "txtoken" ELSE "rxtoken") /\ d.addr = 0
<1> DEFINE d == Settle(Took(c, u))
<1>1. Took(c, u) = ReceiveR(c, u)
  BY DEF Took
<1>2. CASE c.rsp = <<>> /\ Bit(Byt(u), 7)
  <2>1. d = c
    BY <1>1, <1>2 DEF ReceiveR, Settle
  <2> QED
    BY <1>2, <2>1 DEF Kept
<1>3. CASE ~(c.rsp = <<>> /\ Bit(Byt(u), 7))
  <2>1. PICK r, err : r = Append(c.rsp, Byt(u)) /\ err = (c.err \/ (r[1] % 128) \div 2 # 0)
    BY Zenon
  <2>2. PICK data, r1, ph : data = [from |-> "cmd", v |-> IF c.left = 1 THEN 255 ELSE r[5]] /\ r1 = r[1]
            /\ ph = IF ~c.usefifo \/ err THEN "off" ELSE IF c.wr THEN "txtoken" ELSE "rxtoken"
    BY ZenonT(60)
  <2> DEFINE part == [c EXCEPT !.rsp = r]
             whole == [c EXCEPT !.rsp = r, !.r1 = r1, !.err = err, !.addr = 0, !.data = data, !.phase = ph]
  <2>3. Took(c, u) = IF Len(r) < c.left THEN part ELSE whole
    BY <1>1, <1>3, <2>1, <2>2, ZenonT(60) DEF ReceiveR
  <2> HIDE DEF part, whole
  <2>4. c.n \in {17, 24} => c.rsp = <<>> /\ c.left = 1 /\ c.usefifo
    BY DEF CtlFine
  <2>5. c.n \in {17, 24} => Len(r) = 1 /\ c.left = 1
    BY <2>1, <2>4
  <2>6. data.from = "cmd" /\ ph \in {"off", "txtoken", "rxtoken"}
    BY <2>2
  <2>7. CASE Took(c, u) = part /\ c.n \notin {17, 24}
    <3>1. IsCtl(part) /\ part.phase = "answer" /\ part.data = c.data /\ part.lgblklen = c.lgblklen /\ part.busy = c.busy
          /\ part.id = c.id /\ part.n = c.n /\ part.arg = c.arg /\ part.fifo = c.fifo
      BY DEF CtlFine, IsCtl, part
    <3>2. IsCtl(d) /\ d.phase = "answer" /\ d.data = c.data /\ d.lgblklen = c.lgblklen /\ d.busy = c.busy
          /\ d.id = c.id /\ d.n = c.n /\ d.arg = c.arg /\ d.fifo = c.fifo
      BY <2>7, <3>1, Settled
    <3> HIDE DEF d
    <3>3. Kept(d, c) /\ d.fifo = c.fifo
      BY <2>7, <3>2 DEF Kept, CtlFine, Phases, RxPhases, TxPhases, FifosFine
    <3> QED
      BY <1>3, <2>7, <3>3 DEF d
  <2>8. CASE Took(c, u) = whole
    <3>1. IsCtl(whole) /\ whole.phase = ph /\ whole.data = data /\ whole.lgblklen = c.lgblklen /\ whole.busy = c.busy /\ whole.usefifo = c.usefifo
          /\ whole.id = c.id /\ whole.n = c.n /\ whole.arg = c.arg /\ whole.fifo = c.fifo /\ whole.addr = 0 /\ whole.wr = c.wr /\ whole.left = c.left
      BY DEF CtlFine, IsCtl, whole
    <3>2. IsCtl(d) /\ d.phase = ph /\ d.data = data /\ d.lgblklen = c.lgblklen
          /\ d.id = c.id /\ d.n = c.n /\ d.arg = c.arg /\ d.fifo = c.fifo /\ d.addr = 0 /\ d.wr = c.wr /\ d.left = c.left
          /\ (ph = "off" => ~d.busy) /\ (ph # "off" => d.busy = c.busy /\ d.usefifo = c.usefifo)
      BY <2>8, <3>1, Settled
    <3> HIDE DEF d
    <3>3. c.n = 17 => ph \in {"off", "rxtoken"}
      BY <2>2 DEF CtlFine
    <3>4. c.n = 24 => ph \in {"off", "txtoken"}
      BY <2>2 DEF CtlFine
    <3>5. c.busy
      BY DEF CtlFine
    <3>6. Kept(d, c)
      BY <2>6, <3>2, <3>3, <3>4, <3>5 DEF Kept, CtlFine, Phases, RxPhases, TxPhases, FifosFine
    <3> QED
      BY <1>3, <2>6, <3>2, <3>3, <3>4, <3>6 DEF d
  <2>9. c.n \in {17, 24} => ~(Len(r) < c.left)
    <3>1. ~(1 < 1)
      OBVIOUS
    <3> QED
      BY <2>5, <3>1, Zenon
  <2> QED
    BY <2>3, <2>7, <2>8, <2>9
<1> QED
  BY <1>2, <1>3

\* A unit that changes no more than where the transfer is and what it shows of it.
LEMMA Moved ==
    ASSUME NEW c, CtlFine(c), c.busy, c.phase \notin {"send", "answer"},
           NEW e, IsCtl(e), e.lgblklen = c.lgblklen, e.id = c.id, e.n = c.n, e.arg = c.arg, e.busy = c.busy,
           e.usefifo = c.usefifo, e.wr = c.wr, e.left = c.left, e.rsp = c.rsp, FifosFine(e),
           c.phase \in RxPhases, e.phase \in RxPhases \union {"off"}
    PROVE  LET d == Settle(e) IN
           /\ Kept(d, c) /\ d.fifo = e.fifo /\ d.data = e.data /\ d.addr = e.addr /\ d.phase = e.phase /\ d.rsp = c.rsp
           /\ d.busy <=> e.phase # "off"
<1> DEFINE d == Settle(e)
<1>1. IsCtl(d) /\ d.phase = e.phase /\ d.data = e.data /\ d.lgblklen = c.lgblklen
      /\ d.id = c.id /\ d.n = c.n /\ d.arg = c.arg /\ d.fifo = e.fifo /\ d.addr = e.addr /\ d.wr = c.wr /\ d.left = c.left /\ d.rsp = c.rsp
      /\ (e.phase = "off" => ~d.busy) /\ (e.phase # "off" => d.busy = c.busy /\ d.usefifo = c.usefifo)
  BY Settled
<1> HIDE DEF d
<1>2. FifosFine(d)
  BY <1>1 DEF FifosFine
<1>3. d.busy <=> e.phase # "off"
  BY <1>1
<1>4. d.phase \in Phases /\ d.phase \notin {"send", "answer"}
  BY <1>1 DEF Phases, RxPhases, TxPhases
<1>5. d.busy /\ d.n = 17 => d.usefifo /\ ~d.wr /\ d.left = 1 /\ d.phase \notin TxPhases
  BY <1>1 DEF CtlFine, RxPhases, TxPhases
<1>6. d.busy /\ d.n = 24 => /\ d.usefifo /\ d.wr /\ d.left = 1 /\ d.id = 0 /\ d.phase \notin RxPhases
                             /\ (d.data.from = "tx" => d.phase \in {"txbusy", "txidle"})
  BY <1>1 DEF CtlFine, RxPhases, TxPhases
<1>7. Kept(d, c)
  BY <1>1, <1>2, <1>3, <1>4, <1>5, <1>6 DEF Kept, CtlFine
<1> QED
  BY <1>1, <1>3, <1>7 DEF d

\* A byte that is no error token leaves the controller waiting for the block, or starts it.
LEMMA TookRxToken ==
    ASSUME NEW c, CtlFine(c), c.phase = "rxtoken", NEW u
    PROVE  LET d == Settle(Took(c, u)) IN
           /\ Kept(d, c) /\ d.fifo = c.fifo
           /\ ~(Byt(u) < 16) => d.busy /\ d.phase \in {"rxtoken", "rxdata"} /\ d.data = c.data
<1>1. PICK bad : bad = [c EXCEPT !.phase = "off", !.data = [from |-> "rx", v |-> Byt(u)], !.err = @ \/ Bit(Byt(u), 3)]
  OBVIOUS
<1>2. PICK good : good = [c EXCEPT !.phase = "rxdata"]
  OBVIOUS
<1>3. Took(c, u) = RxToken(c, u)
  BY DEF Took
<1>4. Took(c, u) \in {bad, good, c} /\ (~(Byt(u) < 16) => Took(c, u) \in {good, c})
  <2>1. RxToken(c, u) = CASE Byt(u) < 16 -> bad
                          [] Byt(u) >= 16 /\ ~Bit(Byt(u), 0) -> good
                          [] OTHER -> c
    BY <1>1, <1>2 DEF RxToken
  <2> QED
    BY <1>3, <2>1
<1>5. c.busy /\ c.phase \in RxPhases /\ IsCtl(c) /\ FifosFine(c)
  BY DEF CtlFine, RxPhases
<1>6. /\ IsCtl(bad) /\ bad.lgblklen = c.lgblklen /\ bad.id = c.id /\ bad.n = c.n /\ bad.arg = c.arg /\ bad.busy = c.busy
      /\ bad.usefifo = c.usefifo /\ bad.wr = c.wr /\ bad.left = c.left /\ bad.rsp = c.rsp /\ bad.fifo = c.fifo /\ bad.phase = "off"
  BY <1>1, <1>5 DEF IsCtl
<1>7. /\ IsCtl(good) /\ good.lgblklen = c.lgblklen /\ good.id = c.id /\ good.n = c.n /\ good.arg = c.arg /\ good.busy = c.busy
      /\ good.usefifo = c.usefifo /\ good.wr = c.wr /\ good.left = c.left /\ good.rsp = c.rsp /\ good.fifo = c.fifo
      /\ good.phase = "rxdata" /\ good.data = c.data
  BY <1>2, <1>5 DEF IsCtl
<1>8. FifosFine(bad) /\ FifosFine(good)
  BY <1>5, <1>6, <1>7 DEF FifosFine
<1>9. Kept(Settle(bad), c) /\ Settle(bad).fifo = c.fifo
  BY <1>5, <1>6, <1>8, Moved
<1>10. Kept(Settle(good), c) /\ Settle(good).fifo = c.fifo /\ Settle(good).data = c.data /\ Settle(good).phase = "rxdata" /\ Settle(good).busy
  <2>1. good.phase \in RxPhases
    BY <1>7 DEF RxPhases
  <2> QED
    BY <1>5, <1>7, <1>8, <2>1, Moved
<1>11. Settle(c) = c /\ Kept(c, c)
  BY DEF Settle, Kept
<1> QED
  BY <1>4, <1>5, <1>9, <1>10, <1>11

\* Each word goes to its place in the FIFO.
LEMMA TookRxData ==
    ASSUME NEW c, CtlFine(c), c.phase = "rxdata", NEW u
    PROVE  LET d == Settle(Took(c, u)) IN
           /\ Kept(d, c) /\ d.busy /\ d.phase \in {"rxdata", "rxcrc"} /\ d.data = c.data
<1>1. PICK ph, x, a : ph = (IF c.addr + 1 = BlkLen(c) THEN "rxcrc" ELSE c.phase) /\ x = WordOf(u) /\ a = c.addr + 1
  OBVIOUS
<1>2. PICK fs : fs = [c.fifo EXCEPT ![c.id][a] = x]
  OBVIOUS
<1>3. c.busy /\ c.phase \in RxPhases /\ IsCtl(c) /\ FifosFine(c) /\ c.id \in FIFOs
  BY DEF CtlFine, RxPhases
<1>4. PICK e : e = [c EXCEPT !.fifo = fs, !.addr = a, !.phase = ph]
  OBVIOUS
<1>5. Took(c, u) = e
  <2>1. Took(c, u) = RxData(c, u)
    BY DEF Took
  <2>2. RxData(c, u) = [c EXCEPT !.fifo = fs, !.addr = a, !.phase = ph]
    BY <1>1, <1>2, <1>3 DEF RxData, IsCtl
  <2> QED
    BY <1>4, <2>1, <2>2
<1>6. ph \in {"rxdata", "rxcrc"}
  BY <1>1
<1>7. /\ IsCtl(e) /\ e.lgblklen = c.lgblklen /\ e.id = c.id /\ e.n = c.n /\ e.arg = c.arg /\ e.busy = c.busy
      /\ e.usefifo = c.usefifo /\ e.wr = c.wr /\ e.left = c.left /\ e.rsp = c.rsp /\ e.fifo = fs /\ e.phase = ph /\ e.data = c.data
  BY <1>3, <1>4 DEF IsCtl
<1>8. FifosFine(e)
  <2>1. PICK f : f = c.fifo
    OBVIOUS
  <2>2. f = [k \in FIFOs |-> f[k]] /\ \A k \in FIFOs : f[k] = [i \in 1..BLKWORDS |-> f[k][i]]
    BY <1>3, <2>1 DEF FifosFine, IsFifo
  <2>3. fs = [k \in FIFOs |-> IF k = c.id THEN [f[k] EXCEPT ![a] = x] ELSE f[k]]
    BY <1>2, <1>3, <2>1, <2>2
  <2>4. ASSUME NEW k \in FIFOs PROVE fs[k] = [i \in 1..BLKWORDS |-> fs[k][i]]
    <3>1. CASE k = c.id
      <4>1. PICK g : g = f[k]
        OBVIOUS
      <4>2. g = [i \in 1..BLKWORDS |-> g[i]] /\ fs[k] = [g EXCEPT ![a] = x]
        BY <2>2, <2>3, <3>1, <4>1
      <4> QED
        BY <4>2
    <3>2. CASE k # c.id
      BY <2>2, <2>3, <3>2
    <3> QED
      BY <3>1, <3>2
  <2>5. fs = [k \in FIFOs |-> fs[k]]
    BY <2>3
  <2> QED
    BY <1>7, <2>4, <2>5 DEF FifosFine, IsFifo
<1>9. e.phase \in RxPhases /\ e.phase # "off"
  BY <1>6, <1>7 DEF RxPhases
<1>10. Kept(Settle(e), c) /\ Settle(e).data = c.data /\ Settle(e).phase = ph /\ Settle(e).busy
  BY <1>3, <1>7, <1>8, <1>9, Moved
<1> QED
  BY <1>5, <1>6, <1>10

\* The end of a block: the status is good only if the CRC is that of the words in the FIFO.
LEMMA TookRxCrc ==
    ASSUME NEW c, CtlFine(c), c.phase = "rxcrc", NEW u
    PROVE  LET d == Settle(Took(c, u)) IN
           /\ Kept(d, c) /\ d.fifo = c.fifo /\ ~d.busy
           /\ d.data.v = 0 => u = CRC(SubSeq(c.fifo[c.id], 1, BlkLen(c)))
<1>1. PICK ok : ok = (u = CRC(SubSeq(c.fifo[c.id], 1, BlkLen(c))))
  OBVIOUS
<1>2. PICK data : data = [from |-> "rx", v |-> IF ok THEN 0 ELSE 16]
  OBVIOUS
<1>3. PICK e : e = [c EXCEPT !.phase = "off", !.data = data]
  OBVIOUS
<1>4. Took(c, u) = e
  BY <1>1, <1>2, <1>3 DEF Took, RxCrc
<1>5. c.busy /\ c.phase \in RxPhases /\ IsCtl(c) /\ FifosFine(c)
  BY DEF CtlFine, RxPhases
<1>6. /\ IsCtl(e) /\ e.lgblklen = c.lgblklen /\ e.id = c.id /\ e.n = c.n /\ e.arg = c.arg /\ e.busy = c.busy
      /\ e.usefifo = c.usefifo /\ e.wr = c.wr /\ e.left = c.left /\ e.rsp = c.rsp /\ e.fifo = c.fifo /\ e.phase = "off" /\ e.data = data
  BY <1>3, <1>5 DEF IsCtl
<1>7. FifosFine(e)
  BY <1>5, <1>6 DEF FifosFine
<1>8. Kept(Settle(e), c) /\ Settle(e).fifo = c.fifo /\ Settle(e).data = data /\ ~Settle(e).busy
  BY <1>5, <1>6, <1>7, Moved
<1>9. data.v = 0 => ok
  BY <1>2
<1> QED
  BY <1>1, <1>4, <1>8, <1>9

\* The same for a unit of a block that is written.
MovesTo(c, ph, data, addr, d) == d = Settle([c EXCEPT !.phase = ph, !.data = data, !.addr = addr])

\* The transmitter goes from one phase to the next, and changes what it has to say of the write.
LEMMA MovedTx ==
    ASSUME NEW c, CtlFine(c), c.phase \in TxPhases, NEW ph, NEW data, NEW addr, ph \in TxPhases \union {"off"},
           c.n = 24 /\ data.from = "tx" => ph \in {"txbusy", "txidle", "off"},
           NEW d, MovesTo(c, ph, data, addr, d)
    PROVE  /\ Kept(d, c) /\ d.fifo = c.fifo /\ d.data = data /\ d.addr = addr /\ d.phase = ph
           /\ d.busy <=> ph # "off"
<1>1. PICK e : e = [c EXCEPT !.phase = ph, !.data = data, !.addr = addr]
  OBVIOUS
<1>2. d = Settle(e)
  BY <1>1 DEF MovesTo
<1>3. c.busy /\ IsCtl(c) /\ FifosFine(c) /\ c.id \in FIFOs
  BY DEF CtlFine, TxPhases
<1>4. /\ IsCtl(e) /\ e.lgblklen = c.lgblklen /\ e.id = c.id /\ e.n = c.n /\ e.arg = c.arg /\ e.busy = c.busy
      /\ e.usefifo = c.usefifo /\ e.wr = c.wr /\ e.left = c.left /\ e.rsp = c.rsp /\ e.fifo = c.fifo
      /\ e.phase = ph /\ e.data = data /\ e.addr = addr
  BY <1>1, <1>3 DEF IsCtl
<1>5. IsCtl(d) /\ d.phase = ph /\ d.data = data /\ d.lgblklen = c.lgblklen
      /\ d.id = c.id /\ d.n = c.n /\ d.arg = c.arg /\ d.fifo = c.fifo /\ d.addr = addr /\ d.wr = c.wr /\ d.left = c.left /\ d.rsp = c.rsp
      /\ (ph = "off" => ~d.busy) /\ (ph # "off" => d.busy = c.busy /\ d.usefifo = c.usefifo)
  BY <1>2, <1>4, Settled
<1>6. FifosFine(d)
  BY <1>3, <1>5 DEF FifosFine
<1>7. d.busy <=> ph # "off"
  BY <1>3, <1>5
<1>8. d.phase \in Phases /\ d.phase \notin {"send", "answer"}
  BY <1>5 DEF Phases, RxPhases, TxPhases
<1>9. c.n # 17
  BY <1>3 DEF CtlFine
<1>10. d.busy /\ d.n = 24 => /\ d.usefifo /\ d.wr /\ d.left = 1 /\ d.id = 0 /\ d.phase \notin RxPhases
                              /\ (d.data.from = "tx" => d.phase \in {"txbusy", "txidle"})
  BY <1>3, <1>5, <1>7 DEF CtlFine, RxPhases, TxPhases
<1>11. Kept(d, c)
  BY <1>3, <1>5, <1>6, <1>7, <1>8, <1>9, <1>10 DEF Kept, CtlFine
<1> QED
  BY <1>5, <1>7, <1>11

\* One more unit of a block that is written.
LEMMA TookBlock ==
    ASSUME NEW c, CtlFine(c), c.phase \in {"txtoken", "txdata", "txcrc"}, NEW u
    PROVE  LET d == Settle(Took(c, u)) IN
           /\ Kept(d, c) /\ d.busy /\ d.fifo = c.fifo /\ d.data = c.data
           /\ c.phase = "txtoken" => d.phase = "txdata" /\ d.addr = c.addr
           /\ c.phase = "txdata" => d.addr = c.addr + 1 /\ d.phase = (IF c.addr + 1 = BlkLen(c) THEN "txcrc" ELSE "txdata")
           /\ c.phase = "txcrc" => d.phase = "txanswer"
<1> DEFINE d == Settle(Took(c, u))
           M(ph, a) == [c EXCEPT !.phase = ph, !.data = c.data, !.addr = a]
<1>1. IsCtl(c) /\ c.phase \in TxPhases /\ (c.n = 24 => c.data.from # "tx")
  BY DEF CtlFine, TxPhases
<1>2. \A ph \in TxPhases : \A a : LET m == Settle(M(ph, a)) IN
          Kept(m, c) /\ m.fifo = c.fifo /\ m.data = c.data /\ m.addr = a /\ m.phase = ph /\ m.busy
  <2>1. SUFFICES ASSUME NEW ph \in TxPhases, NEW a
                 PROVE  LET m == Settle(M(ph, a)) IN
                        Kept(m, c) /\ m.fifo = c.fifo /\ m.data = c.data /\ m.addr = a /\ m.phase = ph /\ m.busy
    BY Zenon
  <2>2. ph # "off" /\ ph \in TxPhases \union {"off"}
    BY DEF TxPhases
  <2>3. PICK m, data : m = Settle([c EXCEPT !.phase = ph, !.data = data, !.addr = a]) /\ data = c.data
    OBVIOUS
  <2>4. MovesTo(c, ph, data, a, m)
    BY <2>3 DEF MovesTo
  <2>5. Kept(m, c) /\ m.fifo = c.fifo /\ m.data = c.data /\ m.addr = a /\ m.phase = ph /\ m.busy
    BY <1>1, <2>2, <2>3, <2>4, MovedTx
  <2> QED
    BY <2>3, <2>5
<1>3. CASE c.phase = "txtoken"
  <2>1. Took(c, u) = M("txdata", c.addr)
    BY <1>1, <1>3 DEF Took, IsCtl
  <2>2. "txdata" \in TxPhases
    BY DEF TxPhases
  <2> HIDE DEF M
  <2> QED
    BY <1>2, <1>3, <2>1, <2>2
<1>4. CASE c.phase = "txdata"
  <2>1. PICK ph : ph = IF c.addr + 1 = BlkLen(c) THEN "txcrc" ELSE "txdata"
    OBVIOUS
  <2>2. Took(c, u) = M(ph, c.addr + 1)
    BY <1>1, <1>4, <2>1 DEF Took, TxData, IsCtl
  <2>3. ph \in TxPhases
    BY <2>1 DEF TxPhases
  <2> HIDE DEF M
  <2> QED
    BY <1>2, <1>4, <2>1, <2>2, <2>3
<1>5. CASE c.phase = "txcrc"
  <2>1. Took(c, u) = M("txanswer", c.addr)
    BY <1>1, <1>5 DEF Took, IsCtl
  <2>2. "txanswer" \in TxPhases
    BY DEF TxPhases
  <2> HIDE DEF M
  <2> QED
    BY <1>2, <1>5, <2>1, <2>2
<1> QED
  BY <1>3, <1>4, <1>5

\* What the card says of a block it was sent.
LEMMA TookTxAnswer ==
    ASSUME NEW c, CtlFine(c), c.phase = "txanswer", NEW u
    PROVE  LET d == Settle(Took(c, u)) IN
           /\ Kept(d, c) /\ d.fifo = c.fifo /\ d.busy
           /\ IsResponse(Byt(u)) => d.phase = "txbusy"
           /\ ~IsResponse(Byt(u)) => d = c
<1> DEFINE M(data) == [c EXCEPT !.phase = "txbusy", !.data = data, !.addr = c.addr]
<1>1. IsCtl(c) /\ c.phase \in TxPhases /\ c.busy
  BY DEF CtlFine, TxPhases
<1>2. CASE IsResponse(Byt(u))
  <2>1. PICK data : data = [from |-> "tx", v |-> Byt(u)]
    OBVIOUS
  <2>2. Took(c, u) = M(data)
    BY <1>1, <1>2, <2>1 DEF Took, TxResponse, IsCtl
  <2>3. PICK ph : ph = "txbusy"
    OBVIOUS
  <2>4. ph \in TxPhases \union {"off"} /\ (c.n = 24 /\ data.from = "tx" => ph \in {"txbusy", "txidle", "off"}) /\ ph # "off"
    BY <2>3 DEF TxPhases
  <2>5. PICK m, a : m = Settle([c EXCEPT !.phase = ph, !.data = data, !.addr = a]) /\ a = c.addr
    OBVIOUS
  <2>9. MovesTo(c, ph, data, a, m)
    BY <2>5 DEF MovesTo
  <2>6. Kept(m, c) /\ m.fifo = c.fifo /\ m.phase = ph /\ m.busy
    BY <1>1, <2>4, <2>5, <2>9, MovedTx
  <2>7. m = Settle(Took(c, u))
    BY <2>2, <2>3, <2>5
  <2> QED
    BY <1>2, <2>3, <2>6, <2>7
<1>3. CASE ~IsResponse(Byt(u))
  <2>1. Settle(Took(c, u)) = c
    BY <1>3 DEF Took, TxResponse, Settle
  <2> QED
    BY <1>1, <1>3, <2>1 DEF Kept, CtlFine
<1> QED
  BY <1>2, <1>3

\* The wait for the card to have done with the block.
LEMMA TookTxEnd ==
    ASSUME NEW c, CtlFine(c), c.phase \in {"txbusy", "txidle"}, NEW u
    PROVE  LET d == Settle(Took(c, u)) IN
           /\ Kept(d, c) /\ d.fifo = c.fifo /\ d.data = c.data /\ (d.busy => d.phase \in {"txbusy", "txidle"})
<1> DEFINE M(ph) == [c EXCEPT !.phase = ph, !.data = c.data, !.addr = c.addr]
<1>1. IsCtl(c) /\ c.phase \in TxPhases /\ c.busy
  BY DEF CtlFine, TxPhases
<1>2. Took(c, u) = c \/ \E ph \in {"txidle", "off"} : Took(c, u) = M(ph)
  <2>1. CASE c.phase = "txbusy"
    BY <1>1, <2>1 DEF Took, TxIdle, IsCtl
  <2>2. CASE c.phase = "txidle"
    BY <1>1, <2>2 DEF Took, TxIdle, IsCtl
  <2> QED
    BY <2>1, <2>2
<1>3. CASE Took(c, u) = c
  <2>1. Settle(Took(c, u)) = c
    BY <1>3 DEF Settle
  <2> QED
    BY <1>1, <2>1 DEF Kept, CtlFine
<1>4. CASE \E ph \in {"txidle", "off"} : Took(c, u) = M(ph)
  <2>1. PICK ph \in {"txidle", "off"} : Took(c, u) = M(ph)
    BY <1>4
  <2>2. PICK m, data, a : m = Settle([c EXCEPT !.phase = ph, !.data = data, !.addr = a]) /\ data = c.data /\ a = c.addr
    OBVIOUS
  <2>3. ph \in TxPhases \union {"off"} /\ (c.n = 24 /\ c.data.from = "tx" => ph \in {"txbusy", "txidle", "off"})
    BY DEF TxPhases
  <2>9. MovesTo(c, ph, data, a, m)
    BY <2>2 DEF MovesTo
  <2>4. Kept(m, c) /\ m.fifo = c.fifo /\ m.data = c.data /\ m.phase = ph /\ (m.busy <=> ph # "off")
    BY <1>1, <2>2, <2>3, <2>9, MovedTx
  <2>5. m = Settle(Took(c, u))
    BY <2>1, <2>2
  <2> QED
    BY <2>4, <2>5
<1> QED
  BY <1>2, <1>3, <1>4

\* Whatever unit arrives, the controller stays sound.
LEMMA TookFine ==
    ASSUME NEW c, CtlFine(c), c.busy, NEW u
    PROVE  Kept(Settle(Took(c, u)), c)
<1>1. c.phase \in {"send", "answer", "rxtoken", "rxdata", "rxcrc", "txtoken", "txdata", "txcrc", "txanswer", "txbusy", "txidle"}
  BY DEF CtlFine, Phases, RxPhases, TxPhases
<1>2. CASE c.phase = "send"
  BY <1>2, TookSend
<1>3. CASE c.phase = "answer"
  BY <1>3, TookAnswer
<1>4. CASE c.phase = "rxtoken"
  BY <1>4, TookRxToken
<1>5. CASE c.phase = "rxdata"
  BY <1>5, TookRxData
<1>6. CASE c.phase = "rxcrc"
  BY <1>6, TookRxCrc
<1>7. CASE c.phase \in {"txtoken", "txdata", "txcrc"}
  BY <1>7, TookBlock
<1>8. CASE c.phase = "txanswer"
  BY <1>8, TookTxAnswer
<1>9. CASE c.phase \in {"txbusy", "txidle"}
  BY <1>9, TookTxEnd
<1> QED
  BY <1>1, <1>2, <1>3, <1>4, <1>5, <1>6, <1>7, <1>8, <1>9

\* What a write of the data register does.
LEMMA WriteDataIs ==
    ASSUME NEW c, CtlFine(c), NEW v
    PROVE  LET d == WriteData(c, v) IN
           /\ CtlFine(d) /\ d.busy = c.busy /\ d.n = c.n /\ d.arg = c.arg /\ d.id = c.id /\ d.fifo = c.fifo /\ d.ptr = c.ptr
           /\ d.phase = c.phase
           /\ c.busy => d = c
           /\ ~c.busy => d.data.from = "bus"
<1> DEFINE d == WriteData(c, v)
<1>1. CASE c.busy
  BY <1>1 DEF WriteData
<1>2. CASE ~c.busy
  <2>1. PICK data : data = [from |-> "bus", v |-> v] /\ d = [c EXCEPT !.data = data]
    BY <1>2 DEF WriteData
  <2> HIDE DEF d
  <2>2. /\ IsCtl(d) /\ d.busy = c.busy /\ d.n = c.n /\ d.arg = c.arg /\ d.id = c.id /\ d.fifo = c.fifo /\ d.ptr = c.ptr
        /\ d.phase = c.phase /\ d.rsp = c.rsp /\ d.data = data
    BY <2>1 DEF CtlFine, IsCtl
  <2>3. CtlFine(d) /\ d.data.from = "bus"
    BY <1>2, <2>1, <2>2 DEF CtlFine, FifosFine
  <2> QED
    BY <1>2, <2>2, <2>3 DEF d
<1> QED
  BY <1>1, <1>2

\* While the controller is busy, a write of its control register only takes the bus back to the start.
LEMMA BusyCtrlIs ==
    ASSUME NEW c, CtlFine(c), c.busy, NEW w
    PROVE  LET d == WriteCtrl(c, w) IN
           /\ CtlFine(d) /\ d.busy = c.busy /\ d.n = c.n /\ d.arg = c.arg /\ d.id = c.id /\ d.fifo = c.fifo
           /\ d.phase = c.phase /\ d.rsp = c.rsp /\ d.data = c.data /\ d.lgblklen = c.lgblklen /\ d.addr = c.addr /\ d.err = c.err
<1> DEFINE d == WriteCtrl(c, w)
<1>1. d = [c EXCEPT !.ptr = 0]
  BY DEF WriteCtrl
<1> HIDE DEF d
<1>2. /\ IsCtl(d) /\ d.busy = c.busy /\ d.n = c.n /\ d.arg = c.arg /\ d.id = c.id /\ d.fifo = c.fifo /\ d.lgblklen = c.lgblklen
      /\ d.phase = c.phase /\ d.rsp = c.rsp /\ d.data = c.data /\ d.usefifo = c.usefifo /\ d.wr = c.wr /\ d.left = c.left /\ d.addr = c.addr /\ d.err = c.err
  BY <1>1 DEF CtlFine, IsCtl
<1>3. CtlFine(d)
  BY <1>2 DEF CtlFine, FifosFine
<1> QED
  BY <1>2, <1>3 DEF d

\* An access to the auxiliary register.
LEMMA AuxIs ==
    ASSUME NEW c, CtlFine(c), ~c.busy, NEW w, w.n \in {191, 255}, w.id \in FIFOs
    PROVE  LET d == WriteCtrl(c, w) IN
           CtlFine(d) /\ ~d.busy /\ d.n = c.n /\ d.fifo = c.fifo /\ d.data.from = "aux" /\ d.ptr = 0
<1> DEFINE d == WriteCtrl(c, w)
<1>11. PICK err, aux : aux = [from |-> "aux", v |-> 0] /\ err = (c.err /\ ~w.clr)
  OBVIOUS
<1>12. PICK lg : lg = IF w.n = 191 THEN c.lgblklen
                     ELSE IF (c.data.v \div 2^16) % 16 \in 3..9 THEN (c.data.v \div 2^16) % 16 ELSE c.lgblklen
  OBVIOUS
<1>1. d = [c EXCEPT !.ptr = 0, !.id = w.id, !.err = err, !.data = aux, !.lgblklen = lg]
  <2>1. CASE w.n = 191
    <3>1. d = [[[c EXCEPT !.ptr = 0] EXCEPT !.id = w.id, !.err = @ /\ ~w.clr] EXCEPT !.data = [from |-> "aux", v |-> 0]]
      BY <2>1 DEF WriteCtrl
    <3>2. lg = c.lgblklen
      BY <1>12, <2>1
    <3> HIDE DEF d
    <3> QED
      BY <1>11, <3>1, <3>2 DEF CtlFine, IsCtl
  <2>2. CASE w.n = 255
    <3>1. PICK x : x = (c.data.v \div 2^16) % 16
      OBVIOUS
    <3>2. d = [[[c EXCEPT !.ptr = 0] EXCEPT !.id = w.id, !.err = @ /\ ~w.clr]
                 EXCEPT !.data = [from |-> "aux", v |-> 0], !.lgblklen = IF x \in 3..9 THEN x ELSE @]
      BY <2>2, <3>1 DEF WriteCtrl
    <3>3. lg = IF x \in 3..9 THEN x ELSE c.lgblklen
      BY <1>12, <2>2, <3>1
    <3> HIDE DEF d
    <3> QED
      BY <1>11, <3>2, <3>3 DEF CtlFine, IsCtl
  <2> QED
    BY <2>1, <2>2
<1> HIDE DEF d
<1>2. /\ IsCtl(d) /\ d.busy = c.busy /\ d.n = c.n /\ d.id = w.id /\ d.fifo = c.fifo /\ d.phase = c.phase /\ d.rsp = c.rsp
      /\ d.data = aux /\ d.ptr = 0
  BY <1>1 DEF CtlFine, IsCtl
<1>3. CtlFine(d)
  BY <1>2 DEF CtlFine, FifosFine
<1> QED
  BY <1>11, <1>2, <1>3 DEF d

\* The registers that the start of a command sets.
Starts(s, yes, uf, wr, n, arg, left, rsp, d) ==
    d = [s EXCEPT !.busy = yes, !.phase = "send", !.usefifo = uf, !.wr = wr, !.n = n, !.arg = arg, !.left = left, !.rsp = rsp]

\* What the start of a command sets.
LEMMA StartSets ==
    ASSUME NEW s, IsCtl(s), NEW yes, NEW uf, NEW wr, NEW n, NEW arg, NEW left, NEW rsp, NEW d,
           Starts(s, yes, uf, wr, n, arg, left, rsp, d)
    PROVE  /\ IsCtl(d) /\ d.busy = yes /\ d.id = s.id /\ d.fifo = s.fifo /\ d.phase = "send" /\ d.data = s.data
           /\ d.usefifo = uf /\ d.wr = wr /\ d.n = n /\ d.left = left /\ d.rsp = rsp
BY DEF IsCtl, Starts

\* The start of a command.
LEMMA StartIs ==
    ASSUME NEW c, CtlFine(c), ~c.busy, NEW w, w.n \notin {191, 255}, w.id \in FIFOs,
           w.n = 17 => w.fifo /\ ~w.wr /\ ~w.reg,
           w.n = 24 => w.fifo /\ w.wr /\ ~w.reg /\ w.id = 0 /\ c.data.from # "tx"
    PROVE  LET d == WriteCtrl(c, w) IN
           CtlFine(d) /\ d.busy /\ d.phase = "send" /\ d.n = w.n /\ d.fifo = c.fifo /\ d.data = c.data
<1> DEFINE d == WriteCtrl(c, w)
<1>0. IsCtl(c)
  BY DEF CtlFine
<1>1. PICK err, arg, left, id, uf, wr, n, rsp :
          /\ err = (c.err /\ ~w.clr) /\ arg = c.data.v /\ left = (IF w.reg THEN 5 ELSE 1)
          /\ id = w.id /\ uf = w.fifo /\ wr = w.wr /\ n = w.n /\ rsp = <<>>
  OBVIOUS
<1>2. PICK s : s = [c EXCEPT !.ptr = 0, !.id = id, !.err = err]
  OBVIOUS
<1>6. /\ IsCtl(s) /\ s.busy = c.busy /\ s.id = id /\ s.fifo = c.fifo /\ s.data = c.data
  BY <1>0, <1>2, ZenonT(200) DEF IsCtl
<1>7. s = [[c EXCEPT !.ptr = 0] EXCEPT !.id = w.id, !.err = @ /\ ~w.clr]
  <2>1. PICK z : z = [c EXCEPT !.ptr = 0]
    OBVIOUS
  <2>2. IsCtl(z) /\ z.err = c.err
    BY <1>0, <2>1 DEF IsCtl
  <2>3. [z EXCEPT !.id = w.id, !.err = @ /\ ~w.clr] = [z EXCEPT !.id = id, !.err = err]
    BY <1>1, <2>2
  <2>4. [z EXCEPT !.id = id, !.err = err] = s
    BY <1>0, <1>2, <2>1 DEF IsCtl
  <2> QED
    BY <2>1, <2>3, <2>4
<1>8. d = StartCommand(s, w)
  BY <1>7 DEF WriteCtrl
<1>9. d = [s EXCEPT !.busy = TRUE, !.phase = "send", !.usefifo = uf, !.wr = wr, !.n = n, !.arg = arg, !.left = left, !.rsp = rsp]
  BY <1>1, <1>6, <1>8 DEF StartCommand
<1>14. PICK yes : yes = TRUE
  OBVIOUS
<1>15. Starts(s, yes, uf, wr, n, arg, left, rsp, d)
  BY <1>9, <1>14 DEF Starts
<1> HIDE DEF d
<1>10. /\ IsCtl(d) /\ d.busy = yes /\ d.n = n /\ d.id = id /\ d.fifo = c.fifo /\ d.phase = "send" /\ d.rsp = rsp
       /\ d.data = c.data /\ d.usefifo = uf /\ d.wr = wr /\ d.left = left
  BY <1>6, <1>15, StartSets
<1>3. /\ IsCtl(d) /\ d.busy /\ d.n = w.n /\ d.id = w.id /\ d.fifo = c.fifo /\ d.phase = "send" /\ d.rsp = <<>>
      /\ d.data = c.data /\ d.usefifo = w.fifo /\ d.wr = w.wr /\ d.left = left
  BY <1>1, <1>10, <1>14
<1>4. "send" \in Phases /\ "send" \notin RxPhases /\ "send" \notin TxPhases /\ "send" # "off"
  BY DEF Phases, RxPhases, TxPhases
<1>5. CtlFine(d)
  BY <1>1, <1>3, <1>4 DEF CtlFine, FifosFine
<1> QED
  BY <1>3, <1>5 DEF d

\* The two accesses to the FIFOs.
LEMMA ReadFifoIs ==
    ASSUME NEW c, CtlFine(c)
    PROVE  LET d == ReadFifo(c) IN
           /\ CtlFine(d) /\ d.busy = c.busy /\ d.n = c.n /\ d.arg = c.arg /\ d.id = c.id /\ d.fifo = c.fifo
           /\ d.phase = c.phase /\ d.rsp = c.rsp /\ d.data = c.data /\ d.lgblklen = c.lgblklen /\ d.addr = c.addr /\ d.err = c.err
<1> DEFINE d == ReadFifo(c)
<1>1. PICK p : p = (c.ptr + 1) % BLKWORDS /\ d = [c EXCEPT !.ptr = p]
  BY DEF ReadFifo, CtlFine, IsCtl
<1> HIDE DEF d
<1>2. /\ IsCtl(d) /\ d.busy = c.busy /\ d.n = c.n /\ d.arg = c.arg /\ d.id = c.id /\ d.fifo = c.fifo /\ d.lgblklen = c.lgblklen
      /\ d.phase = c.phase /\ d.rsp = c.rsp /\ d.data = c.data /\ d.usefifo = c.usefifo /\ d.wr = c.wr /\ d.left = c.left
      /\ d.addr = c.addr /\ d.err = c.err
  BY <1>1 DEF CtlFine, IsCtl
<1>3. CtlFine(d)
  BY <1>2 DEF CtlFine, FifosFine
<1> QED
  BY <1>2, <1>3 DEF d

\* A zero written to a FIFO is at the place the pointer had, and the pointer is one further.
LEMMA WriteFifoIs ==
    ASSUME NEW c, CtlFine(c), ~c.busy, NEW id \in FIFOs
    PROVE  LET d == WriteFifo(c, id, 0) IN
           /\ CtlFine(d) /\ ~d.busy /\ d.n = c.n /\ d.data = c.data
           /\ id = 1 => d.fifo[0] = c.fifo[0]
           /\ \A k \in 0..(BLKWORDS - 1) : id = 0 /\ c.ptr = k =>
                  d.ptr = (k + 1) % BLKWORDS /\ d.fifo[0] = [i \in 1..BLKWORDS |-> IF i = k + 1 THEN 0 ELSE c.fifo[0][i]]
<1> DEFINE d == WriteFifo(c, id, 0)
<1>0. IsCtl(c) /\ FifosFine(c)
  BY DEF CtlFine
<1>1. PICK p, a, f, fs : p = (c.ptr + 1) % BLKWORDS /\ a = c.ptr + 1 /\ f = c.fifo /\ fs = [f EXCEPT ![id] = [@ EXCEPT ![a] = 0]]
  OBVIOUS
<1>2. d = [c EXCEPT !.ptr = p, !.fifo = fs]
  BY <1>0, <1>1 DEF WriteFifo, IsCtl
<1> HIDE DEF d
<1>3. /\ IsCtl(d) /\ d.busy = c.busy /\ d.n = c.n /\ d.id = c.id /\ d.fifo = fs
      /\ d.phase = c.phase /\ d.rsp = c.rsp /\ d.data = c.data /\ d.ptr = p
  BY <1>0, <1>2 DEF IsCtl
<1>4. f = [k \in FIFOs |-> f[k]] /\ \A k \in FIFOs : f[k] = [i \in 1..BLKWORDS |-> f[k][i]]
  BY <1>0, <1>1 DEF FifosFine, IsFifo
<1>5. PICK g : g = f[id]
  OBVIOUS
<1>6. g = [i \in 1..BLKWORDS |-> g[i]]
  BY <1>4, <1>5
<1>7. PICK h : h = [g EXCEPT ![a] = 0]
  OBVIOUS
<1>8. h = [i \in 1..BLKWORDS |-> IF i = a THEN 0 ELSE g[i]] /\ h = [i \in 1..BLKWORDS |-> h[i]]
  BY <1>6, <1>7
<1>9. fs = [k \in FIFOs |-> IF k = id THEN h ELSE f[k]]
  BY <1>1, <1>4, <1>5, <1>7
<1>10. FifosFine(d)
  <2>1. \A k \in FIFOs : fs[k] = [i \in 1..BLKWORDS |-> fs[k][i]]
    <3> SUFFICES ASSUME NEW k \in FIFOs PROVE fs[k] = [i \in 1..BLKWORDS |-> fs[k][i]]
      OBVIOUS
    <3>1. CASE k = id
      <4>1. fs[k] = h
        BY <1>9, <3>1
      <4> QED
        BY <1>8, <4>1
    <3>2. CASE k # id
      <4>1. fs[k] = f[k]
        BY <1>9, <3>2
      <4> QED
        BY <1>4, <4>1
    <3> QED
      BY <3>1, <3>2
  <2>2. fs = [k \in FIFOs |-> fs[k]]
    BY <1>9
  <2> QED
    BY <1>3, <2>1, <2>2 DEF FifosFine, IsFifo
<1>11. CtlFine(d)
  BY <1>3, <1>10 DEF CtlFine
<1>12. id = 1 => fs[0] = f[0]
  BY <1>9 DEF FIFOs
<1>13. id = 0 => fs[0] = h /\ g = f[0]
  BY <1>5, <1>9 DEF FIFOs
<1>14. ASSUME NEW k \in 0..(BLKWORDS - 1), id = 0, c.ptr = k
       PROVE  d.ptr = (k + 1) % BLKWORDS /\ d.fifo[0] = [i \in 1..BLKWORDS |-> IF i = k + 1 THEN 0 ELSE c.fifo[0][i]]
  BY <1>1, <1>3, <1>8, <1>13, <1>14
<1> QED
  BY <1>1, <1>3, <1>11, <1>12, <1>14 DEF d

\* What the controller makes of the bytes the card sends.
LEMMA Bytes ==
    /\ Byt(Ones) = 255 /\ Byt(StartToken) = 254 /\ Byt(Byte(0)) = 0 /\ Byt(Byte(5)) = 5
    /\ Bit(255, 7) /\ ~Bit(0, 7) /\ ~IsResponse(255) /\ IsResponse(5)
<1>1. 2^0 = 1 /\ 2^4 = 16 /\ 2^7 = 128
  OBVIOUS
<1>2. Byt(Ones) = 255 /\ Byt(StartToken) = 254 /\ Byt(Byte(0)) = 0 /\ Byt(Byte(5)) = 5
  BY DEF Byt, Ones, StartToken, Byte
<1>3. Bit(255, 7) /\ ~Bit(0, 7)
  BY <1>1 DEF Bit
<1>4. ~IsResponse(255) /\ IsResponse(5)
  BY <1>1 DEF Bit, IsResponse
<1> QED
  BY <1>2, <1>3, <1>4

\* None of the units of a block looks like an error token.
LEMMA NoToken ==
    ASSUME NEW ws, NEW u \in Units(ws) \union {Ones}
    PROVE  ~(Byt(u) < 16)
<1>1. CASE u \in {StartToken, Ones}
  BY <1>1, Bytes
<1>2. CASE u = CRC(ws) \/ \E i \in DOMAIN ws : u = Word(ws[i])
  <2>1. u.k # "byte"
    BY <1>2 DEF CRC, Word
  <2> QED
    BY <2>1 DEF Byt
<1> QED
  BY <1>1, <1>2 DEF Units

\* Only the CRC of a block is a CRC.
LEMMA OnlyCRC ==
    ASSUME NEW ws, NEW u \in Units(ws) \union {Ones}, NEW x, u = CRC(x)
    PROVE  x = ws
<1>1. u.k = "crc" /\ u.v = x
  BY DEF CRC
<1>2. u # StartToken /\ u # Ones /\ \A i \in DOMAIN ws : u # Word(ws[i])
  BY <1>1 DEF StartToken, Ones, Byte, Word
<1>3. u = CRC(ws)
  BY <1>2 DEF Units
<1> QED
  BY <1>1, <1>3 DEF CRC

\* The first words of a FIFO.
LEMMA SubIs ==
    ASSUME NEW f, IsFifo(f), NEW n \in 1..BLKWORDS
    PROVE  SubSeq(f, 1, n) = [i \in 1..n |-> f[i]]
<1>0. BLKWORDS \in Nat /\ BLKWORDS > 1 /\ n \in Nat
  BY CardAssumption
<1>1. PICK S : S = {f[i] : i \in 1..BLKWORDS}
  OBVIOUS
<1>2. f \in Seq(S) /\ Len(f) = BLKWORDS
  BY <1>0, <1>1 DEF IsFifo
<1>3. SubSeq(f, 1, n) \in Seq(S) /\ Len(SubSeq(f, 1, n)) = n /\ \A i \in 1..n : SubSeq(f, 1, n)[i] = f[i]
  BY <1>0, <1>2
<1> QED
  BY <1>3

\* A block is a sector or one word.
LEMMA BlkLenIs == \A c : BlkLen(c) \in 1..BLKWORDS /\ (BlkLen(c) = BLKWORDS \/ BlkLen(c) = 1)
  BY CardAssumption DEF BlkLen

\* A read that is over, without an error and with a good CRC, has left the sector in its FIFO.
HasSector(c) ==
    ~c.busy /\ c.n = 17 /\ c.data.from = "rx" /\ ~c.err /\ c.data.v = 0 => c.fifo[c.id] = Sector(c.arg)

\* A read that ends with a good status has its sector: the CRC on the wires is the sector's, and it is that of the words in the FIFO.
LEMMA ReadEnds ==
    ASSUME NEW c, CtlFine(c), c.busy, c.n = 17, NEW u,
           c.phase \in RxPhases => u \in Units(Sector(c.arg)) \union {Ones}
    PROVE  HasSector(Settle(Took(c, u)))
<1> DEFINE d == Settle(Took(c, u))
<1>1. c.phase \in {"send", "answer", "rxtoken", "rxdata", "rxcrc"}
  BY DEF CtlFine, Phases, RxPhases
<1>2. CASE c.phase = "send"
  <2>1. d.busy
    BY <1>2, TookSend
  <2> QED
    BY <2>1 DEF HasSector
<1>3. CASE c.phase = "answer"
  <2>1. c.rsp = <<>>
    BY <1>3 DEF CtlFine
  <2>2. d = c \/ d.data.from = "cmd"
    BY <1>3, <2>1, TookAnswer
  <2> QED
    BY <2>2 DEF HasSector
<1>4. CASE c.phase = "rxtoken"
  <2>1. ~(Byt(u) < 16)
    BY <1>4, NoToken DEF RxPhases
  <2>2. d.busy
    BY <1>4, <2>1, TookRxToken
  <2> QED
    BY <2>2 DEF HasSector
<1>5. CASE c.phase = "rxdata"
  <2>1. d.busy
    BY <1>5, TookRxData
  <2> QED
    BY <2>1 DEF HasSector
<1>6. CASE c.phase = "rxcrc"
  <2>1. Kept(d, c) /\ d.fifo = c.fifo /\ (d.data.v = 0 => u = CRC(SubSeq(c.fifo[c.id], 1, BlkLen(c))))
    BY <1>6, TookRxCrc
  <2>2. PICK f, n : f = c.fifo[c.id] /\ n = BlkLen(c)
    OBVIOUS
  <2>3. IsFifo(f) /\ n \in 1..BLKWORDS /\ (n = BLKWORDS \/ n = 1)
    BY <2>2, BlkLenIs DEF CtlFine, FifosFine
  <2>4. SubSeq(f, 1, n) = [i \in 1..n |-> f[i]]
    BY <2>3, SubIs
  <2>5. u = CRC(SubSeq(f, 1, n)) => SubSeq(f, 1, n) = Sector(c.arg)
    BY <1>6, OnlyCRC DEF RxPhases
  <2>6. SubSeq(f, 1, n) = Sector(c.arg) => f = Sector(c.arg)
    <3>1. DOMAIN Sector(c.arg) = 1..BLKWORDS
      BY DEF Sector
    <3>2. BLKWORDS \in Nat /\ BLKWORDS > 1
      BY CardAssumption
    <3>3. SUFFICES ASSUME SubSeq(f, 1, n) = Sector(c.arg) PROVE f = Sector(c.arg)
      OBVIOUS
    <3>4. 1..n = 1..BLKWORDS
      BY <2>4, <3>1, <3>3
    <3>5. n = BLKWORDS
      BY <2>3, <3>2, <3>4
    <3> QED
      BY <2>3, <2>4, <3>3, <3>5 DEF IsFifo
  <2> QED
    BY <2>1, <2>2, <2>5, <2>6 DEF HasSector, Kept
<1> QED
  BY <1>1, <1>2, <1>3, <1>4, <1>5, <1>6

-----------------------------------------------------------------------------
(* The card and the controller, while a sector is read or written. *)

\* The command has been sent and the card has not looked at it; or it took it for a
\* part of a block it still waits for.
Waiting(k, n, arg) ==
    \/ k.cmdidx = 0 /\ k.reading /\ k.out = Ones
    \/ k.cmdidx = 6 /\ ~k.reading /\ k.cmd = Command(n, arg) /\ k.out = Ones

\* The response to a read, and the block after it.
Answering(k, arg) ==
    k.cmdidx = 7 /\ ~k.reading /\ k.rspbuf = Response(<<0>>) /\ k.blk \in Seq(Units(Sector(arg)))

Reading(k, c) ==
    \/ c.phase = "answer" /\ Waiting(k, 17, c.arg)
    \/ c.phase = "answer" /\ Answering(k, c.arg) /\ k.rspidx = 0 /\ k.out = Ones
    \/ c.phase = "answer" /\ Answering(k, c.arg) /\ k.rspidx = 1 /\ k.out = Byte(0)
    \/ c.phase \in RxPhases /\ Answering(k, c.arg) /\ k.rspidx > 0 /\ k.out \in Units(Sector(c.arg)) \union {Ones}

\* The words of the FIFO that the card has.
Received(k, c) == k.reading /\ k.token /\ k.out = Ones /\ k.rx = [i \in 1..c.addr |-> Word(c.fifo[0][i])]

Writes(k, c) ==
    \/ c.phase = "answer" /\ Waiting(k, 24, c.arg)
    \/ /\ k.cmdidx = 7
       /\ \/ c.phase = "answer" /\ k.reading /\ ~k.token /\ k.out = Byte(0)
          \/ c.phase = "txtoken" /\ k.reading /\ ~k.token /\ k.out = Ones /\ c.addr = 0
          \/ c.phase = "txdata" /\ Received(k, c) /\ c.addr \in 0..(BlkLen(c) - 1)
          \/ c.phase = "txcrc" /\ Received(k, c) /\ c.addr = BlkLen(c)
          \/ c.phase = "txanswer" /\ k.reading /\ k.token /\ k.out = Ones
          \/ c.phase = "txanswer" /\ ~k.reading /\ k.out = Byte(5) /\ k.accepted = c.fifo[0]
          \/ c.phase \in {"txbusy", "txidle"} /\ ~k.reading

\* A card that waits for a block, and what it makes of a unit that is none of it.
LEMMA KeepsWaiting ==
    ASSUME NEW k, CardFine(k), k.reading, NEW u, u.k # "crc"
    PROVE  LET m == Receive(k, u) IN
           /\ CardFine(m) /\ m.cmdidx = k.cmdidx
           /\ m.failed \/ (m.reading /\ m.out = Ones)
<1>1. Receive(k, u) = ReceiveData(k, u)
  BY DEF Receive, CardFine
<1>2. \A ws : u # CRC(ws)
  BY DEF CRC
<1> QED
  BY <1>1, <1>2, DataOther

\* The card gets the command.
LEMMA CommandSent ==
    ASSUME NEW k, CardFine(k), k.cmdidx = 0, NEW n, NEW arg
    PROVE  LET m == Receive(k, Command(n, arg)) IN CardFine(m) /\ (m.failed \/ Waiting(m, n, arg))
<1> DEFINE u == Command(n, arg)
<1>1. u.k = "cmd"
  BY DEF Command
<1>2. k.reading \in BOOLEAN
  BY DEF CardFine
<1> HIDE DEF u
<1>3. CASE k.reading
  <2>1. u.k # "crc"
    BY <1>1
  <2> QED
    BY <1>3, <2>1, KeepsWaiting DEF Waiting, u
<1>4. CASE ~k.reading
  BY <1>4, NewCommand DEF Waiting, u
<1> QED
  BY <1>2, <1>3, <1>4

\* The card looks at the command, or goes on waiting.
LEMMA CommandSeen ==
    ASSUME NEW k, CardFine(k), NEW n, NEW arg, Waiting(k, n, arg)
    PROVE  LET m == Receive(k, Ones) IN
           /\ CardFine(m)
           /\ \/ m.failed
              \/ Waiting(m, n, arg)
              \/ n \notin {17, 24}
              \/ n = 17 /\ Answering(m, arg) /\ m.rspidx = 0 /\ m.out = Ones
              \/ n = 24 /\ m.cmdidx = 7 /\ m.reading /\ ~m.token /\ m.out = Byte(0)
<1> DEFINE m == Receive(k, Ones)
<1>1. CASE k.cmdidx = 0 /\ k.reading
  <2>1. Ones.k # "crc"
    BY DEF Ones, Byte
  <2>2. CardFine(m) /\ m.cmdidx = 0 /\ (m.failed \/ (m.reading /\ m.out = Ones))
    BY <1>1, <2>1, KeepsWaiting
  <2> QED
    BY <2>2 DEF Waiting
<1>2. CASE k.cmdidx = 6 /\ ~k.reading /\ k.cmd = Command(n, arg)
  <2>1. m = Process(k)
    BY <1>2 DEF Receive
  <2> HIDE DEF m
  <2>2. CardFine(m) /\ m.cmdidx = 7
    BY <1>2, <2>1, ProcessFine
  <2>3. n = 17 => m.failed \/ (~m.reading /\ m.rspbuf = Response(<<0>>) /\ m.blk = Block(Sector(arg)) /\ m.rspidx = 0 /\ m.out = Ones)
    BY <1>2, <2>1, ProcessFine
  <2>4. n = 24 => m.failed \/ (m.reading /\ ~m.token /\ m.out = Byte(0))
    BY <1>2, <2>1, ProcessFine
  <2>5. Block(Sector(arg)) \in Seq(Units(Sector(arg)))
    BY BlockUnits
  <2> QED
    BY <2>2, <2>3, <2>4, <2>5 DEF Answering, m
<1> QED
  BY <1>1, <1>2 DEF Waiting

\* The card goes on with its answer.
LEMMA Answers ==
    ASSUME NEW k, CardFine(k), NEW arg, Answering(k, arg), NEW u
    PROVE  LET m == Receive(k, u) IN
           /\ CardFine(m) /\ Answering(m, arg) /\ m.accepted = k.accepted
           /\ k.rspidx = 0 => (m.rspidx = 0 /\ m.out = Ones) \/ (m.rspidx = 1 /\ m.out = Byte(0))
           /\ k.rspidx > 0 => m.rspidx > 0 /\ m.out \in Units(Sector(arg)) \union {Ones}
<1> DEFINE m == Receive(k, u)
<1>1. /\ CardFine(m) /\ ~m.reading /\ m.cmdidx = 7 /\ m.accepted = k.accepted /\ m.rspbuf = k.rspbuf
      /\ \/ m.rspidx = k.rspidx /\ m.out = Ones /\ m.blk = k.blk
         \/ k.rspidx < RSPLEN /\ m.rspidx = k.rspidx + 1 /\ m.out = k.rspbuf[k.rspidx + 1] /\ m.blk = k.blk
         \/ k.rspidx > 0 /\ m.rspidx = k.rspidx /\ k.blk # <<>> /\ m.out = Head(k.blk) /\ m.blk = Tail(k.blk)
  BY AnswerFine DEF Answering
<1> HIDE DEF m
<1>2. k.rspidx \in Nat /\ RSPLEN \in Nat
  BY CardAssumption DEF CardFine
<1>3. PICK U : U = Units(Sector(arg))
  OBVIOUS
<1>4. k.blk \in Seq(U)
  BY <1>3 DEF Answering
<1>5. k.blk # <<>> => Head(k.blk) \in U /\ Tail(k.blk) \in Seq(U)
  BY <1>4
<1>6. k.rspidx < RSPLEN => k.rspbuf[k.rspidx + 1] = IF k.rspidx = 0 THEN Byte(0) ELSE Ones
  <2>1. k.rspbuf = Response(<<0>>)
    BY DEF Answering
  <2>2. k.rspidx > 0 /\ k.rspidx < RSPLEN => k.rspidx + 1 \in 2..RSPLEN
    BY <1>2
  <2> QED
    BY <1>2, <2>1, <2>2, OneZero
<1>7. Answering(m, arg)
  BY <1>1, <1>3, <1>4, <1>5 DEF Answering
<1>8. k.rspidx = 0 => (m.rspidx = 0 /\ m.out = Ones) \/ (m.rspidx = 1 /\ m.out = Byte(0))
  <2> SUFFICES ASSUME k.rspidx = 0 PROVE (m.rspidx = 0 /\ m.out = Ones) \/ (m.rspidx = 1 /\ m.out = Byte(0))
    OBVIOUS
  <2>1. k.rspidx + 1 = 1 /\ ~(k.rspidx > 0)
    OBVIOUS
  <2>2. k.rspidx < RSPLEN => k.rspbuf[k.rspidx + 1] = Byte(0)
    BY <1>6
  <2> QED
    BY <1>1, <2>1, <2>2
<1>9. k.rspidx > 0 => m.rspidx > 0 /\ m.out \in U \union {Ones}
  BY <1>1, <1>2, <1>5, <1>6
<1> QED
  BY <1>1, <1>3, <1>7, <1>8, <1>9 DEF m

\* What the card makes of any unit.
LEMMA ReceiveFine ==
    ASSUME NEW k, CardFine(k), k.cmdidx \in {0, 6, 7}, NEW u
    PROVE  CardFine(Receive(k, u)) /\ Receive(k, u).cmdidx \in {0, 6, 7}
<1>0. k.reading \in BOOLEAN
  BY DEF CardFine
<1>1. CASE k.reading
  <2>1. Receive(k, u) = ReceiveData(k, u)
    BY <1>1 DEF Receive
  <2> QED
    BY <1>1, <2>1, DataOther
<1>2. CASE ~k.reading /\ k.cmdidx = 0
  BY <1>2, NewCommand
<1>3. CASE ~k.reading /\ k.cmdidx = 6
  <2>1. Receive(k, u) = Process(k)
    BY <1>3 DEF Receive
  <2> QED
    BY <1>3, <2>1, ProcessFine
<1>4. CASE ~k.reading /\ k.cmdidx = 7
  BY <1>4, AnswerFine
<1> QED
  BY <1>0, <1>1, <1>2, <1>3, <1>4

\* One unit of a read leaves the two in step.
LEMMA ReadStep ==
    ASSUME NEW c, CtlFine(c), c.busy, c.n = 17, NEW k, CardFine(k),
           c.phase = "send" => k.cmdidx = 0, c.phase # "send" => Reading(k, c)
    PROVE  LET d == Settle(Took(c, k.out))
               m == Receive(k, Sent(c))
           IN d.busy /\ ~m.failed => d.phase # "send" /\ Reading(m, d)
<1> DEFINE d == Settle(Took(c, k.out))
           m == Receive(k, Sent(c))
<1>1. Kept(d, c)
  BY TookFine
<1>2. d.n = 17 /\ d.arg = c.arg /\ CtlFine(d)
  BY <1>1 DEF Kept
<1>3. CASE c.phase = "send"
  <2>1. d.phase = "answer"
    BY <1>3, TookSend
  <2>2. Sent(c) = Command(17, c.arg)
    BY <1>3 DEF Sent
  <2>3. m.failed \/ Waiting(m, 17, c.arg)
    BY <1>3, <2>2, CommandSent
  <2> HIDE DEF d, m
  <2>4. ~m.failed => d.phase # "send" /\ Reading(m, d)
    BY <1>2, <2>1, <2>3 DEF Reading
  <2> QED
    BY <2>4 DEF d, m
<1>4. CASE c.phase = "answer"
  <2>1. c.rsp = <<>>
    BY <1>4 DEF CtlFine
  <2>2. Sent(c) = Ones
    BY <1>4 DEF Sent
  <2>3. k.out = Ones => d = c
    BY <1>4, <2>1, Bytes, TookAnswer
  <2>4. k.out = Byte(0) => (d.busy => d.phase = "rxtoken")
    BY <1>4, Bytes, TookAnswer
  <2>5. "answer" \notin RxPhases /\ "rxtoken" \in RxPhases /\ "answer" # "send" /\ "rxtoken" # "send"
    BY DEF RxPhases
  <2>6. CASE Waiting(k, 17, c.arg)
    <3>1. k.out = Ones
      BY <2>6 DEF Waiting
    <3>2. m.failed \/ Waiting(m, 17, c.arg) \/ (Answering(m, c.arg) /\ m.rspidx = 0 /\ m.out = Ones)
      BY <2>2, <2>6, CommandSeen
    <3> HIDE DEF d, m
    <3>3. ~m.failed => d.phase # "send" /\ Reading(m, d)
      BY <1>4, <2>3, <3>1, <3>2 DEF Reading
    <3> QED
      BY <3>3 DEF d, m
  <2>7. CASE Answering(k, c.arg) /\ k.rspidx = 0 /\ k.out = Ones
    <3>1. Answering(m, c.arg) /\ ((m.rspidx = 0 /\ m.out = Ones) \/ (m.rspidx = 1 /\ m.out = Byte(0)))
      BY <2>7, Answers
    <3> HIDE DEF d, m
    <3>2. d.phase # "send" /\ Reading(m, d)
      BY <1>4, <2>3, <2>7, <3>1 DEF Reading
    <3> QED
      BY <3>2 DEF d, m
  <2>8. CASE Answering(k, c.arg) /\ k.rspidx = 1 /\ k.out = Byte(0)
    <3>1. k.rspidx > 0
      BY <2>8
    <3>2. Answering(m, c.arg) /\ m.rspidx > 0 /\ m.out \in Units(Sector(c.arg)) \union {Ones}
      BY <2>8, <3>1, Answers
    <3> HIDE DEF d, m
    <3>3. d.busy => d.phase # "send" /\ Reading(m, d)
      BY <1>2, <2>4, <2>5, <2>8, <3>2 DEF Reading
    <3> QED
      BY <3>3 DEF d, m
  <2> QED
    BY <1>4, <2>5, <2>6, <2>7, <2>8 DEF Reading
<1>5. CASE c.phase \in RxPhases
  <2>1. "answer" \notin RxPhases /\ "send" \notin RxPhases /\ "rxdata" \in RxPhases /\ "rxcrc" \in RxPhases /\ "rxtoken" \in RxPhases
    BY DEF RxPhases
  <2>2. Answering(k, c.arg) /\ k.rspidx > 0 /\ k.out \in Units(Sector(c.arg)) \union {Ones}
    BY <1>5, <2>1 DEF Reading
  <2>3. Answering(m, c.arg) /\ m.rspidx > 0 /\ m.out \in Units(Sector(c.arg)) \union {Ones}
    BY <2>2, Answers
  <2>4. d.busy => d.phase \in RxPhases
    <3>1. CASE c.phase = "rxtoken"
      <4>1. ~(Byt(k.out) < 16)
        BY <2>2, NoToken
      <4> QED
        BY <2>1, <3>1, <4>1, TookRxToken
    <3>2. CASE c.phase = "rxdata"
      BY <2>1, <3>2, TookRxData
    <3>3. CASE c.phase = "rxcrc"
      BY <3>3, TookRxCrc
    <3> QED
      BY <1>5, <3>1, <3>2, <3>3 DEF RxPhases
  <2> HIDE DEF d, m
  <2>5. d.busy => d.phase # "send" /\ Reading(m, d)
    BY <1>2, <2>1, <2>3, <2>4 DEF Reading
  <2> QED
    BY <2>5 DEF d, m
<1>6. c.phase \in {"send", "answer"} \union RxPhases
  BY DEF CtlFine, Phases
<1> QED
  BY <1>3, <1>4, <1>5, <1>6

\* A card that waits for a block gets its token, its words and its CRC.
LEMMA BlockSent ==
    ASSUME NEW k, CardFine(k), k.reading, NEW u
    PROVE  LET m == Receive(k, u) IN
           /\ CardFine(m) /\ m.cmdidx = k.cmdidx
           /\ ~k.token => m.reading /\ (m.token <=> u = StartToken) /\ m.rx = <<>> /\ m.out = Ones
           /\ k.token /\ Len(k.rx) < BLKWORDS => m.reading /\ m.token /\ m.rx = Append(k.rx, u) /\ m.out = Ones
           /\ \A f : k.token /\ k.rx = [i \in 1..BLKWORDS |-> Word(f[i])] /\ u = CRC([i \in 1..BLKWORDS |-> f[i]]) =>
                  ~m.reading /\ m.out = Byte(5) /\ m.accepted = [i \in 1..BLKWORDS |-> f[i]]
<1> DEFINE m == Receive(k, u)
<1>1. m = ReceiveData(k, u)
  BY DEF Receive
<1>2. CardFine(m) /\ m.cmdidx = k.cmdidx
  BY <1>1, DataOther
<1>3. IsCard(k) /\ k.token \in BOOLEAN
  BY DEF CardFine
<1> HIDE DEF m
<1>4. ASSUME ~k.token PROVE m.reading /\ (m.token <=> u = StartToken) /\ m.rx = <<>> /\ m.out = Ones
  <2>1. PICK t, s, o : t = (u = StartToken) /\ s = <<>> /\ o = Ones
    OBVIOUS
  <2>2. m = [k EXCEPT !.token = t, !.rx = s, !.out = o]
    BY <1>1, <1>4, <2>1 DEF ReceiveData
  <2>3. m.reading = k.reading /\ m.token = t /\ m.rx = s /\ m.out = o
    BY <1>3, <2>2 DEF IsCard
  <2> QED
    BY <2>1, <2>3
<1>5. ASSUME k.token, Len(k.rx) < BLKWORDS PROVE m.reading /\ m.token /\ m.rx = Append(k.rx, u) /\ m.out = Ones
  <2>1. PICK s, o : s = Append(k.rx, u) /\ o = Ones
    OBVIOUS
  <2>2. m = [k EXCEPT !.rx = s, !.out = o]
    BY <1>1, <1>3, <1>5, <2>1 DEF ReceiveData, IsCard
  <2>3. m.reading = k.reading /\ m.token = k.token /\ m.rx = s /\ m.out = o
    BY <1>3, <2>2 DEF IsCard
  <2> QED
    BY <1>5, <2>1, <2>3
<1>6. ASSUME NEW f, k.token, k.rx = [i \in 1..BLKWORDS |-> Word(f[i])], u = CRC([i \in 1..BLKWORDS |-> f[i]])
      PROVE  ~m.reading /\ m.out = Byte(5) /\ m.accepted = [i \in 1..BLKWORDS |-> f[i]]
  <2>1. BLKWORDS \in Nat
    BY CardAssumption
  <2>2. PICK rx, ws : rx = k.rx /\ ws = [i \in DOMAIN rx |-> rx[i].v[1]]
    OBVIOUS
  <2>3. \A i \in 1..BLKWORDS : rx[i] = Word(f[i])
    BY <1>6, <2>2
  <2>4. DOMAIN rx = 1..BLKWORDS /\ ~(Len(rx) < BLKWORDS)
    BY <1>6, <2>1, <2>2
  <2>5. \A x : Word(x).v[1] = x
    BY DEF Word
  <2>6. ws = [i \in 1..BLKWORDS |-> f[i]]
    BY <2>2, <2>3, <2>4, <2>5
  <2>7. PICK e : e = Check(k, u = CRC(ws))
    OBVIOUS
  <2>8. IsCard(e) /\ e.accepted = k.accepted
    BY <2>7, CheckFine
  <2>9. PICK o : o = Byte(5)
    OBVIOUS
  <2>10. m = [e EXCEPT !.reading = FALSE, !.token = FALSE, !.accepted = ws, !.out = o]
    BY <1>1, <1>6, <2>2, <2>4, <2>6, <2>7, <2>9, ZenonT(60) DEF ReceiveData
  <2>11. ~m.reading /\ m.accepted = ws /\ m.out = o
    BY <2>8, <2>10 DEF IsCard
  <2> QED
    BY <2>6, <2>9, <2>11
<1> QED
  BY <1>2, <1>4, <1>5, <1>6 DEF m

\* Both get one more word: what the card has received is still what the FIFO begins with.
LEMMA OneMoreWord ==
    ASSUME NEW k, NEW c, Received(k, c), c.addr \in Nat, NEW m, NEW d, d.addr = c.addr + 1, d.fifo = c.fifo,
           m.reading, m.token, m.out = Ones, m.rx = Append(k.rx, Word(c.fifo[0][c.addr + 1]))
    PROVE  Received(m, d)
<1>1. PICK f, a, s : f = c.fifo[0] /\ a = c.addr /\ s = k.rx
  OBVIOUS
<1>2. PICK g : g = [i \in 1..(a + 1) |-> Word(f[i])]
  OBVIOUS
<1>3. s = [i \in 1..a |-> Word(f[i])] /\ a \in Nat
  BY <1>1 DEF Received
<1>4. PICK S : S = {Word(f[i]) : i \in 1..(a + 1)}
  OBVIOUS
<1>12. Word(f[a + 1]) \in S /\ \A i \in 1..a : Word(f[i]) \in S
  <2>1. \A i \in 1..a : i \in 1..(a + 1)
    BY <1>3
  <2>2. a + 1 \in 1..(a + 1)
    BY <1>3
  <2> QED
    BY <1>4, <2>1, <2>2, Zenon
<1>5. s \in Seq(S) /\ Len(s) = a /\ Word(f[a + 1]) \in S
  BY <1>3, <1>12
<1>6. PICK w : w = Word(f[a + 1])
  OBVIOUS
<1>7. Append(s, w) \in Seq(S) /\ Len(Append(s, w)) = a + 1 /\ Append(s, w)[a + 1] = w
      /\ \A i \in 1..a : Append(s, w)[i] = s[i]
  BY <1>3, <1>5, <1>6
<1>8. Append(s, w) = [i \in 1..(a + 1) |-> Append(s, w)[i]]
  <2>1. PICK x, n : x = Append(s, w) /\ n = a + 1
    OBVIOUS
  <2>2. x \in Seq(S) /\ Len(x) = n
    BY <1>7, <2>1
  <2>3. x = [i \in 1..n |-> x[i]]
    BY <2>2
  <2> QED
    BY <2>1, <2>3
<1>9. ASSUME NEW i \in 1..(a + 1) PROVE Append(s, w)[i] = Word(f[i])
  <2>1. CASE i = a + 1
    BY <1>6, <1>7, <2>1
  <2>2. CASE i # a + 1
    <3>1. i \in 1..a
      BY <1>3, <2>2
    <3> QED
      BY <1>3, <1>7, <3>1
  <2> QED
    BY <2>1, <2>2
<1>10. Append(s, w) = g
  BY <1>2, <1>8, <1>9
<1>11. m.rx = g
  BY <1>1, <1>6, <1>10
<1> QED
  BY <1>1, <1>2, <1>11 DEF Received

\* One unit of a write leaves the two in step, and a block whose answer the registers show
\* is one that the card took from the FIFO.
LEMMA WriteStep ==
    ASSUME NEW c, CtlFine(c), c.busy, c.n = 24, NEW k, CardFine(k),
           c.phase = "send" => k.cmdidx = 0, c.phase # "send" => Writes(k, c)
    PROVE  LET d == Settle(Took(c, k.out))
               m == Receive(k, Sent(c))
           IN /\ d.busy /\ ~m.failed => d.phase # "send" /\ Writes(m, d)
              /\ d.fifo = c.fifo
              /\ d.data.from = "tx" => m.accepted = c.fifo[0] \/ (c.data.from = "tx" /\ m.accepted = k.accepted)
<1> DEFINE d == Settle(Took(c, k.out))
           m == Receive(k, Sent(c))
           Goal == /\ d.busy /\ ~m.failed => d.phase # "send" /\ Writes(m, d)
                   /\ d.fifo = c.fifo
                   /\ d.data.from = "tx" => m.accepted = c.fifo[0] \/ (c.data.from = "tx" /\ m.accepted = k.accepted)
<1>1. Kept(d, c)
  BY TookFine
<1>2. d.n = 24 /\ d.arg = c.arg /\ d.id = 0 /\ c.id = 0 /\ d.lgblklen = c.lgblklen
  BY <1>1 DEF Kept, CtlFine
<1>3. BlkLen(d) = BlkLen(c)
  BY <1>2 DEF BlkLen
<1>4. \A ph \in {"answer", "txanswer", "txbusy", "txidle"} : c.phase = ph => Sent(c) = Ones
  BY DEF Sent
<1>5. c.phase \in {"send", "answer", "txtoken", "txdata", "txcrc", "txanswer", "txbusy", "txidle"}
  BY DEF CtlFine, Phases, RxPhases, TxPhases
<1>6. c.phase \notin {"txbusy", "txidle"} => c.data.from # "tx"
  BY DEF CtlFine
<1>7. Ones # StartToken /\ Ones.k # "crc"
  BY DEF Ones, StartToken, Byte
<1>8. CASE c.phase = "send"
  <2>1. d.phase = "answer" /\ d.fifo = c.fifo /\ d.data = c.data
    BY <1>8, TookSend
  <2>2. Sent(c) = Command(24, c.arg)
    BY <1>8 DEF Sent
  <2>3. m.failed \/ Waiting(m, 24, c.arg)
    BY <1>8, <2>2, CommandSent
  <2> HIDE DEF d, m
  <2>4. ~m.failed => d.phase # "send" /\ Writes(m, d)
    BY <1>2, <2>1, <2>3 DEF Writes
  <2> QED
    BY <1>6, <1>8, <2>1, <2>4 DEF d, m
<1>9. CASE c.phase = "answer"
  <2>1. c.rsp = <<>>
    BY <1>9 DEF CtlFine
  <2>2. Sent(c) = Ones
    BY <1>4, <1>9
  <2>3. d.fifo = c.fifo /\ (k.out = Ones => d = c)
    BY <1>9, <2>1, Bytes, TookAnswer
  <2>4. k.out = Byte(0) => d.data.from = "cmd" /\ (d.busy => d.phase = "txtoken" /\ d.addr = 0)
    BY <1>9, Bytes, TookAnswer
  <2>5. CASE Waiting(k, 24, c.arg)
    <3>1. k.out = Ones
      BY <2>5 DEF Waiting
    <3>2. m.failed \/ Waiting(m, 24, c.arg) \/ (m.cmdidx = 7 /\ m.reading /\ ~m.token /\ m.out = Byte(0))
      BY <2>2, <2>5, CommandSeen
    <3> HIDE DEF d, m
    <3>3. ~m.failed => d.phase # "send" /\ Writes(m, d)
      BY <1>9, <2>3, <3>1, <3>2 DEF Writes
    <3> QED
      BY <1>6, <1>9, <2>3, <3>1, <3>3 DEF d, m
  <2>6. CASE k.cmdidx = 7 /\ k.reading /\ ~k.token /\ k.out = Byte(0)
    <3>1. m.cmdidx = 7 /\ m.reading /\ ~m.token /\ m.out = Ones
      BY <1>7, <2>2, <2>6, BlockSent
    <3> HIDE DEF d, m
    <3>2. d.busy => d.phase # "send" /\ Writes(m, d)
      BY <2>4, <2>6, <3>1 DEF Writes
    <3> QED
      BY <2>3, <2>4, <2>6, <3>2 DEF d, m
  <2> QED
    BY <1>9, <2>5, <2>6 DEF Writes
<1>10. CASE c.phase = "txtoken"
  <2>1. k.cmdidx = 7 /\ k.reading /\ ~k.token /\ c.addr = 0
    BY <1>10 DEF Writes
  <2>2. d.fifo = c.fifo /\ d.data = c.data /\ d.phase = "txdata" /\ d.addr = 0
    BY <1>10, <2>1, TookBlock
  <2>3. Sent(c) = StartToken
    BY <1>10 DEF Sent
  <2>4. m.cmdidx = 7 /\ m.reading /\ m.token /\ m.rx = <<>> /\ m.out = Ones
    BY <2>1, <2>3, BlockSent
  <2> HIDE DEF d, m
  <2>5. Received(m, d)
    <3>1. [i \in 1..0 |-> Word(d.fifo[0][i])] = <<>>
      OBVIOUS
    <3> QED
      BY <2>2, <2>4, <3>1 DEF Received
  <2>6. 0 \in 0..(BlkLen(d) - 1)
    BY BlkLenIs, CardAssumption
  <2>7. d.phase # "send" /\ Writes(m, d)
    BY <2>2, <2>4, <2>5, <2>6 DEF Writes
  <2> QED
    BY <1>6, <1>10, <2>2, <2>7 DEF d, m
<1>11. CASE c.phase = "txdata"
  <2>1. k.cmdidx = 7 /\ Received(k, c) /\ c.addr \in 0..(BlkLen(c) - 1)
    BY <1>11 DEF Writes
  <2>2. d.fifo = c.fifo /\ d.data = c.data /\ d.addr = c.addr + 1 /\ d.phase = (IF c.addr + 1 = BlkLen(c) THEN "txcrc" ELSE "txdata")
    BY <1>11, TookBlock
  <2>3. Sent(c) = Word(c.fifo[0][c.addr + 1])
    BY <1>2, <1>11 DEF Sent
  <2>4. BlkLen(c) \in Nat /\ BlkLen(c) <= BLKWORDS /\ BLKWORDS \in Nat /\ c.addr \in Nat
    BY <2>1, BlkLenIs, CardAssumption
  <2>5. k.reading /\ k.token /\ Len(k.rx) = c.addr
    BY <2>1, <2>4 DEF Received
  <2>6. m.cmdidx = 7 /\ m.reading /\ m.token /\ m.out = Ones /\ m.rx = Append(k.rx, Word(c.fifo[0][c.addr + 1]))
    <3>1. Len(k.rx) < BLKWORDS
      BY <2>1, <2>4, <2>5
    <3> QED
      BY <2>1, <2>3, <2>5, <3>1, BlockSent
  <2> HIDE DEF d, m
  <2>7. Received(m, d)
    BY <2>1, <2>2, <2>4, <2>6, OneMoreWord
  <2>8. (d.phase = "txcrc" /\ d.addr = BlkLen(d)) \/ (d.phase = "txdata" /\ d.addr \in 0..(BlkLen(d) - 1))
    <3>1. PICK n, a : n = BlkLen(c) /\ a = c.addr
      OBVIOUS
    <3>2. n \in Nat /\ a \in 0..(n - 1)
      BY <2>1, <2>4, <3>1
    <3>3. a + 1 = n \/ a + 1 \in 0..(n - 1)
      BY <3>2
    <3> QED
      BY <1>3, <2>2, <3>1, <3>3
  <2>9. d.phase # "send" /\ Writes(m, d)
    BY <2>6, <2>7, <2>8 DEF Writes
  <2> QED
    BY <1>6, <1>11, <2>2, <2>9 DEF d, m
<1>12. CASE c.phase = "txcrc"
  <2>1. k.cmdidx = 7 /\ Received(k, c) /\ c.addr = BlkLen(c)
    BY <1>12 DEF Writes
  <2>2. d.fifo = c.fifo /\ d.data = c.data /\ d.phase = "txanswer"
    BY <1>12, TookBlock
  <2>3. PICK f, n : f = c.fifo[0] /\ n = BlkLen(c)
    OBVIOUS
  <2>4. IsFifo(f) /\ n \in 1..BLKWORDS /\ (n = BLKWORDS \/ n = 1) /\ BLKWORDS \in Nat /\ BLKWORDS > 1
    BY <2>3, BlkLenIs, CardAssumption DEF CtlFine, FifosFine, FIFOs
  <2>5. Sent(c) = CRC(SubSeq(f, 1, n)) /\ SubSeq(f, 1, n) = [i \in 1..n |-> f[i]]
    <3>1. Sent(c) = CRC(SubSeq(f, 1, n))
      BY <1>2, <1>12, <2>3 DEF Sent
    <3>2. SubSeq(f, 1, n) = [i \in 1..n |-> f[i]]
      BY <2>4, SubIs
    <3> QED
      BY <3>1, <3>2
  <2>6. k.reading /\ k.token /\ k.rx = [i \in 1..n |-> Word(f[i])]
    BY <2>1, <2>3 DEF Received
  <2>7. CASE n = BLKWORDS
    <3>1. ~m.reading /\ m.out = Byte(5) /\ m.accepted = [i \in 1..BLKWORDS |-> f[i]] /\ m.cmdidx = 7
      <4>1. PICK u : u = CRC([i \in 1..BLKWORDS |-> f[i]])
        OBVIOUS
      <4>2. Sent(c) = u
        BY <2>5, <2>7, <4>1
      <4>3. k.rx = [i \in 1..BLKWORDS |-> Word(f[i])]
        BY <2>6, <2>7
      <4>4. PICK r : r = Receive(k, u)
        OBVIOUS
      <4>5. ~r.reading /\ r.out = Byte(5) /\ r.accepted = [i \in 1..BLKWORDS |-> f[i]] /\ r.cmdidx = k.cmdidx
        BY <2>6, <4>1, <4>3, <4>4, BlockSent
      <4> QED
        BY <2>1, <4>2, <4>4, <4>5
    <3>2. m.accepted = d.fifo[0]
      BY <2>2, <2>3, <2>4, <3>1 DEF IsFifo
    <3> HIDE DEF d, m
    <3>3. d.phase # "send" /\ Writes(m, d)
      BY <2>2, <3>1, <3>2 DEF Writes
    <3> QED
      BY <1>6, <1>12, <2>2, <3>3 DEF d, m
  <2>8. CASE n = 1
    <3>1. Len(k.rx) < BLKWORDS
      BY <2>4, <2>6, <2>8
    <3>2. m.reading /\ m.token /\ m.out = Ones /\ m.cmdidx = 7
      BY <2>1, <2>6, <3>1, BlockSent
    <3> HIDE DEF d, m
    <3>3. d.phase # "send" /\ Writes(m, d)
      BY <2>2, <3>2 DEF Writes
    <3> QED
      BY <1>6, <1>12, <2>2, <3>3 DEF d, m
  <2> QED
    BY <2>4, <2>7, <2>8
<1>13. CASE c.phase = "txanswer"
  <2>0. k.cmdidx = 7 /\ Sent(c) = Ones
    BY <1>4, <1>13 DEF Writes
  <2>1. d.fifo = c.fifo /\ (k.out = Ones => d = c) /\ (k.out = Byte(5) => d.phase = "txbusy")
    BY <1>13, Bytes, TookTxAnswer
  <2>2. CASE k.reading /\ k.token /\ k.out = Ones
    <3>1. CardFine(m) /\ m.cmdidx = 7 /\ (m.failed \/ (m.reading /\ m.out = Ones))
      BY <1>7, <2>0, <2>2, KeepsWaiting
    <3>2. ~m.failed => m.token
      <4>1. m = ReceiveData(k, Ones) /\ IsCard(k)
        BY <2>0, <2>2 DEF Receive, CardFine
      <4>2. CASE Len(k.rx) < BLKWORDS
        BY <2>0, <2>2, <4>2, BlockSent
      <4>3. CASE ~(Len(k.rx) < BLKWORDS)
        <5>1. PICK ws : ws = [i \in DOMAIN k.rx |-> k.rx[i].v[1]]
          OBVIOUS
        <5>2. Ones # CRC(ws)
          BY <1>7 DEF CRC
        <5>3. PICK e : e = Check(k, Ones = CRC(ws))
          OBVIOUS
        <5>4. IsCard(e) /\ e.failed
          BY <5>2, <5>3, CheckFine
        <5>5. PICK o, acc : m = [e EXCEPT !.reading = FALSE, !.token = FALSE, !.accepted = acc, !.out = o]
          BY <2>2, <4>1, <4>3, <5>1, <5>2, <5>3 DEF ReceiveData
        <5> HIDE DEF m
        <5>6. m.failed = e.failed
          BY <5>4, <5>5 DEF IsCard
        <5> QED
          BY <5>4, <5>6
      <4> QED
        BY <4>2, <4>3
    <3> HIDE DEF d, m
    <3>3. ~m.failed => d.phase # "send" /\ Writes(m, d)
      BY <1>13, <2>1, <2>2, <3>1, <3>2 DEF Writes
    <3> QED
      BY <1>6, <1>13, <2>1, <2>2, <3>3 DEF d, m
  <2>3. CASE ~k.reading /\ k.out = Byte(5) /\ k.accepted = c.fifo[0]
    <3>1. ~m.reading /\ m.cmdidx = 7 /\ m.accepted = k.accepted
      BY <2>0, <2>3, AnswerFine
    <3> HIDE DEF d, m
    <3>2. d.phase # "send" /\ Writes(m, d)
      BY <2>1, <2>3, <3>1 DEF Writes
    <3> QED
      BY <2>1, <2>3, <3>1, <3>2 DEF d, m
  <2> QED
    BY <1>13, <2>2, <2>3 DEF Writes
<1>14. CASE c.phase \in {"txbusy", "txidle"}
  <2>1. k.cmdidx = 7 /\ ~k.reading /\ Sent(c) = Ones
    BY <1>4, <1>14 DEF Writes
  <2>2. d.fifo = c.fifo /\ d.data = c.data /\ (d.busy => d.phase \in {"txbusy", "txidle"})
    BY <1>14, TookTxEnd
  <2>3. ~m.reading /\ m.cmdidx = 7 /\ m.accepted = k.accepted
    BY <2>1, AnswerFine
  <2> HIDE DEF d, m
  <2>4. d.busy => d.phase # "send" /\ Writes(m, d)
    BY <2>2, <2>3 DEF Writes
  <2> QED
    BY <2>2, <2>3, <2>4 DEF d, m
<1> QED
  BY <1>5, <1>8, <1>9, <1>10, <1>11, <1>12, <1>13, <1>14

(* The invariant. *)
Fine == ~pulled /\ ~card.failed

CardOK == CardFine(card) /\ card.cmdidx \in {0, 6, 7}
CtlOK  == CtlFine(ctl)
Deselected == Fine /\ (~ctl.busy \/ ctl.phase = "send") => card.cmdidx = 0
ReadOK  == Fine /\ ctl.busy /\ ctl.n = 17 /\ ctl.phase # "send" => Reading(card, ctl)
WriteOK == Fine /\ ctl.busy /\ ctl.n = 24 /\ ctl.phase # "send" => Writes(card, ctl)
Core == CardOK /\ CtlOK /\ Deselected /\ ReadOK /\ WriteOK /\ HasSector(ctl)

Zeros == [i \in 1..BLKWORDS |-> 0]
\* No transfer is on from the last wait before the FIFOs are filled until the sector is written.
QuietOK == pc > Base - BLKWORDS /\ pc <= Base + 2 * BLKWORDS + 5 => ~ctl.busy
\* How far the filling has come.
FillOK ==
    /\ \A k \in 0..BLKWORDS : pc = Base + 3 + k =>
          ctl.data.from = "aux" /\ ctl.ptr = k % BLKWORDS /\ \A j \in 1..k : ctl.fifo[0][j] = 0
    /\ \A k \in 0..BLKWORDS : pc = Base + BLKWORDS + 4 + k => ctl.data.from = "aux"
    /\ \A k \in 0..(BLKWORDS + 1) : pc = Base + BLKWORDS + 4 + k => ctl.fifo[0] = Zeros
    /\ pc = Base + 2 * BLKWORDS + 5 => ctl.data.from = "bus"
WrittenOK ==
    /\ ctl.n = 24 => pc > Base + 2 * BLKWORDS + 5
    /\ ctl.n = 24 /\ ctl.busy => ctl.fifo[0] = Zeros
    /\ ctl.n = 24 /\ ctl.data.from = "tx" => card.accepted = Zeros

Inv == pc \in Int /\ Core /\ QuietOK /\ FillOK /\ WrittenOK

-----------------------------------------------------------------------------
(* The accesses of the CPU, and the card. *)

\* What the CPU does while a transfer is on is not seen by it.
LEMMA CoreSame ==
    ASSUME Core, card' = card, pulled' = pulled, CtlFine(ctl'),
           ctl'.busy = ctl.busy, ctl'.n = ctl.n, ctl'.arg = ctl.arg, ctl'.phase = ctl.phase, ctl'.fifo = ctl.fifo,
           ctl'.id = ctl.id, ctl'.addr = ctl.addr, ctl'.lgblklen = ctl.lgblklen, ctl'.data = ctl.data, ctl'.err = ctl.err
    PROVE  Core'
<1>1. CardOK' /\ CtlOK' /\ Deselected'
  BY DEF Core, CardOK, CtlOK, Deselected, Fine
<1>2. BlkLen(ctl') = BlkLen(ctl)
  BY DEF BlkLen
<1>3. Reading(card', ctl') <=> Reading(card, ctl)
  BY DEF Reading
<1>4. Writes(card', ctl') <=> Writes(card, ctl)
  <2>1. Received(card', ctl') <=> Received(card, ctl)
    BY DEF Received
  <2> QED
    BY <1>2, <2>1 DEF Writes
<1>5. ReadOK' /\ WriteOK'
  BY <1>3, <1>4 DEF Core, ReadOK, WriteOK, Fine
<1>6. HasSector(ctl')
  BY DEF Core, HasSector
<1> QED
  BY <1>1, <1>5, <1>6 DEF Core

\* An access that starts nothing keeps the card and the controller as they belong together.
LEMMA CoreIdle ==
    ASSUME Core, card' = card, pulled' = pulled, CtlFine(ctl'), ~ctl.busy, ~ctl'.busy, HasSector(ctl')
    PROVE  Core'
BY DEF Core, CardOK, CtlOK, Deselected, ReadOK, WriteOK, Fine

\* So does one that starts a command: the card was deselected and has not seen it.
LEMMA CoreStarts ==
    ASSUME Core, card' = card, pulled' = pulled, CtlFine(ctl'), ~ctl.busy, ctl'.busy, ctl'.phase = "send"
    PROVE  Core'
BY DEF Core, CardOK, CtlOK, Deselected, ReadOK, WriteOK, Fine, HasSector

\* An access that may come anywhere in the program.
LEMMA AnyAccess ==
    ASSUME Core, card' = card, pulled' = pulled, NEW o \in Early \union Late, Access(o)
    PROVE  /\ Core'
           /\ ctl'.fifo = ctl.fifo
           /\ ctl'.n = 24 => ctl.n = 24 /\ (ctl'.busy => ctl.busy) /\ (ctl'.data.from = "tx" => ctl.data.from = "tx")
           /\ o.op = "get" => ctl'.busy = ctl.busy
           /\ o.op = "wait" => ~ctl'.busy
<1>0. CtlFine(ctl) /\ HasSector(ctl)
  BY DEF Core, CtlOK
<1>1. CASE o \in DataOps
  <2>1. ctl' = WriteData(ctl, o.v) /\ o.op = "data"
    BY <1>1 DEF Access, DataOps
  <2>2. /\ CtlFine(ctl') /\ ctl'.busy = ctl.busy /\ ctl'.n = ctl.n /\ ctl'.fifo = ctl.fifo
        /\ ctl.busy => ctl' = ctl
        /\ ~ctl.busy => ctl'.data.from = "bus"
    BY <1>0, <2>1, WriteDataIs
  <2>3. CASE ctl.busy
    <3>1. Core'
      BY <1>0, <2>2, <2>3, CoreSame
    <3> QED
      BY <2>1, <2>2, <2>3, <3>1
  <2>4. CASE ~ctl.busy
    <3>1. HasSector(ctl')
      BY <2>2, <2>4 DEF HasSector
    <3>2. Core'
      BY <2>2, <2>4, <3>1, CoreIdle
    <3> QED
      BY <2>1, <2>2, <2>4, <3>2
  <2> QED
    BY <2>3, <2>4
<1>2. CASE o \in CtrlOps
  <2>1. ctl' = WriteCtrl(ctl, o) /\ o.op = "ctrl" /\ o.n # 24 /\ (o.n = 17 => o.fifo /\ ~o.wr /\ ~o.reg) /\ o.id \in FIFOs
    BY <1>2 DEF Access, CtrlOps
  <2>2. CASE ctl.busy
    <3>1. /\ CtlFine(ctl') /\ ctl'.busy = ctl.busy /\ ctl'.n = ctl.n /\ ctl'.arg = ctl.arg /\ ctl'.id = ctl.id /\ ctl'.fifo = ctl.fifo
          /\ ctl'.phase = ctl.phase /\ ctl'.data = ctl.data /\ ctl'.lgblklen = ctl.lgblklen /\ ctl'.addr = ctl.addr /\ ctl'.err = ctl.err
      BY <1>0, <2>1, <2>2, BusyCtrlIs, ZenonT(60)
    <3>2. Core'
      BY <3>1, CoreSame
    <3> QED
      BY <2>1, <3>1, <3>2
  <2>3. CASE ~ctl.busy /\ o.n \in {191, 255}
    <3>1. CtlFine(ctl') /\ ~ctl'.busy /\ ctl'.n = ctl.n /\ ctl'.fifo = ctl.fifo /\ ctl'.data.from = "aux"
      BY <1>0, <2>1, <2>3, AuxIs
    <3>2. HasSector(ctl')
      BY <3>1 DEF HasSector
    <3>3. Core'
      BY <2>3, <3>1, <3>2, CoreIdle
    <3> QED
      BY <2>1, <3>1, <3>3
  <2>4. CASE ~ctl.busy /\ o.n \notin {191, 255}
    <3>1. CtlFine(ctl') /\ ctl'.busy /\ ctl'.phase = "send" /\ ctl'.n = o.n /\ ctl'.fifo = ctl.fifo
      BY <1>0, <2>1, <2>4, StartIs
    <3>2. Core'
      BY <2>4, <3>1, CoreStarts
    <3> QED
      BY <2>1, <3>1, <3>2
  <2> QED
    BY <2>2, <2>3, <2>4
<1>3. CASE o \in GetOps
  <2>1. ctl' = ReadFifo(ctl) /\ o.op = "get"
    BY <1>3 DEF Access, GetOps
  <2>2. /\ CtlFine(ctl') /\ ctl'.busy = ctl.busy /\ ctl'.n = ctl.n /\ ctl'.arg = ctl.arg /\ ctl'.id = ctl.id /\ ctl'.fifo = ctl.fifo
        /\ ctl'.phase = ctl.phase /\ ctl'.data = ctl.data /\ ctl'.lgblklen = ctl.lgblklen /\ ctl'.addr = ctl.addr /\ ctl'.err = ctl.err
    BY <1>0, <2>1, ReadFifoIs
  <2>3. Core'
    BY <2>2, CoreSame
  <2> QED
    BY <2>1, <2>2, <2>3
<1>4. CASE o \in WaitOps \union WhileOps \union ErrOps
  <2>1. ctl' = ctl /\ o.op \in {"wait", "while1", "iferr"} /\ (o.op = "wait" => ~ctl.busy)
    BY <1>4 DEF Access, WaitOps, WhileOps, ErrOps
  <2>2. Core'
    BY <1>0, <2>1, CoreSame
  <2> QED
    BY <2>1, <2>2
<1> QED
  BY <1>1, <1>2, <1>3, <1>4 DEF Early, Late, Plain

\* Where an access leaves the program.
LEMMA EarlyGoes ==
    ASSUME pc \in Int, NEW o \in Early, Access(o)
    PROVE  pc' \in Int /\ pc' <= pc + 1
BY DEF Access, Early, Plain, DataOps, CtrlOps, WaitOps, GetOps, WhileOps

\* Once the FIFOs are being filled the program only goes on.
LEMMA LateGoes ==
    ASSUME pc \in Int, NEW o \in Late, Access(o)
    PROVE  pc' \in Int /\ pc' > pc
BY DEF Access, Late, Plain, DataOps, CtrlOps, WaitOps, GetOps, ErrOps

\* The accesses that fill the FIFOs and start the write.
LEMMA FillStep ==
    ASSUME Inv, card' = card, pulled' = pulled, NEW i \in 1..(2 * BLKWORDS + 5), pc = Base + i, Access(Writing[i])
    PROVE  Inv'
<1>0. BLKWORDS \in Nat /\ BLKWORDS > 1 /\ Base \in Nat /\ i \in Nat
  BY CardAssumption, BeforeIs
<1>1. Core /\ CtlFine(ctl) /\ ~ctl.busy /\ ctl.n # 24 /\ FillOK
  BY <1>0 DEF Inv, Core, CtlOK, QuietOK, WrittenOK
<1>2. Ctrl(255).op = "ctrl" /\ Ctrl(255).n = 255 /\ Ctrl(255).id = 0 /\ 0 \in FIFOs /\ 1 \in FIFOs
  BY DEF Ctrl, FIFOs
\* Once an access has left the controller idle, and shown no other command than before.
<1>3. ASSUME pc' = pc + 1, CtlFine(ctl'), ~ctl'.busy, ctl'.n = ctl.n, HasSector(ctl'), FillOK'
      PROVE  Inv'
  <2>1. Core'
    BY <1>1, <1>3, CoreIdle
  <2>2. QuietOK' /\ WrittenOK' /\ pc' \in Int
    BY <1>0, <1>1, <1>3 DEF QuietOK, WrittenOK
  <2> QED
    BY <1>3, <2>1, <2>2 DEF Inv
<1>4. CASE i = 1
  <2>1. ctl' = WriteData(ctl, Writing[i].v) /\ pc' = pc + 1
    BY <1>4, WritingIs DEF Access
  <2>2. CtlFine(ctl') /\ ~ctl'.busy /\ ctl'.n = ctl.n /\ ctl'.data.from = "bus"
    BY <1>1, <2>1, WriteDataIs
  <2>3. FillOK'
    BY <1>0, <1>4, <2>1 DEF FillOK
  <2> QED
    BY <1>3, <2>1, <2>2, <2>3 DEF HasSector
<1>5. CASE i = 2
  <2>1. ctl' = WriteCtrl(ctl, Ctrl(255)) /\ pc' = pc + 1
    BY <1>2, <1>5, WritingIs DEF Access
  <2>2. CtlFine(ctl') /\ ~ctl'.busy /\ ctl'.n = ctl.n /\ ctl'.data.from = "aux" /\ ctl'.ptr = 0
    BY <1>1, <1>2, <2>1, AuxIs
  <2>3. pc' = Base + 3 + 0 /\ 0 % BLKWORDS = 0
    BY <1>0, <1>5, <2>1
  <2>4. FillOK'
    BY <1>0, <2>2, <2>3 DEF FillOK
  <2> QED
    BY <1>3, <2>1, <2>2, <2>4 DEF HasSector
<1>6. CASE i \in 3..(BLKWORDS + 2)
  <2>1. ctl' = WriteFifo(ctl, 0, 0) /\ pc' = pc + 1
    BY <1>6, WritingIs DEF Access
  <2>2. PICK k \in 0..(BLKWORDS - 1) : i = 3 + k
    <3>1. i - 3 \in 0..(BLKWORDS - 1) /\ i = 3 + (i - 3)
      BY <1>0, <1>6
    <3> QED
      BY <3>1
  <2>3. k \in 0..BLKWORDS /\ k + 1 \in 0..BLKWORDS /\ pc = Base + 3 + k /\ pc' = Base + 3 + (k + 1) /\ k % BLKWORDS = k
    BY <1>0, <2>1, <2>2
  <2>4. ctl.data.from = "aux" /\ ctl.ptr = k /\ \A j \in 1..k : ctl.fifo[0][j] = 0
    BY <1>1, <2>3 DEF FillOK
  <2>5. /\ CtlFine(ctl') /\ ~ctl'.busy /\ ctl'.n = ctl.n /\ ctl'.data = ctl.data
        /\ ctl'.ptr = (k + 1) % BLKWORDS /\ ctl'.fifo[0] = [j \in 1..BLKWORDS |-> IF j = k + 1 THEN 0 ELSE ctl.fifo[0][j]]
    <3>1. PICK id, d : id = 0 /\ d = WriteFifo(ctl, id, 0)
      OBVIOUS
    <3>2. id \in FIFOs /\ ctl' = d
      BY <1>2, <2>1, <3>1
    <3>3. CtlFine(d) /\ ~d.busy /\ d.n = ctl.n /\ d.data = ctl.data
      BY <1>1, <3>1, <3>2, WriteFifoIs
    <3>4. d.ptr = (k + 1) % BLKWORDS /\ d.fifo[0] = [j \in 1..BLKWORDS |-> IF j = k + 1 THEN 0 ELSE ctl.fifo[0][j]]
      BY <1>1, <2>4, <3>1, <3>2, WriteFifoIs
    <3> QED
      BY <3>2, <3>3, <3>4
  <2>6. \A j \in 1..(k + 1) : ctl'.fifo[0][j] = 0
    <3> SUFFICES ASSUME NEW j \in 1..(k + 1) PROVE ctl'.fifo[0][j] = 0
      OBVIOUS
    <3>1. j \in 1..BLKWORDS /\ (j = k + 1 \/ j \in 1..k)
      BY <1>0
    <3> QED
      BY <2>4, <2>5, <3>1
  <2>7. FillOK'
    BY <1>0, <2>3, <2>4, <2>5, <2>6 DEF FillOK
  <2> QED
    BY <1>3, <2>1, <2>4, <2>5, <2>7 DEF HasSector
<1>7. CASE i = BLKWORDS + 3
  <2>1. ctl' = WriteCtrl(ctl, Ctrl(255)) /\ pc' = pc + 1
    BY <1>2, <1>7, WritingIs DEF Access
  <2>2. CtlFine(ctl') /\ ~ctl'.busy /\ ctl'.n = ctl.n /\ ctl'.data.from = "aux" /\ ctl'.fifo = ctl.fifo
    BY <1>1, <1>2, <2>1, AuxIs
  <2>3. pc = Base + 3 + BLKWORDS /\ BLKWORDS \in 0..BLKWORDS
    BY <1>0, <1>7
  <2>4. \A j \in 1..BLKWORDS : ctl.fifo[0][j] = 0
    BY <1>1, <2>3 DEF FillOK
  <2>5. ctl.fifo[0] = Zeros
    <3>1. PICK f : f = ctl.fifo[0]
      OBVIOUS
    <3>2. f = [j \in 1..BLKWORDS |-> f[j]]
      BY <1>1, <1>2, <3>1 DEF CtlFine, FifosFine, IsFifo
    <3> QED
      BY <2>4, <3>1, <3>2 DEF Zeros
  <2>6. pc' = Base + BLKWORDS + 4 + 0
    BY <1>0, <2>1, <2>3
  <2>7. FillOK'
    BY <1>0, <2>2, <2>5, <2>6 DEF FillOK
  <2> QED
    BY <1>3, <2>1, <2>2, <2>7 DEF HasSector
<1>8. CASE i \in (BLKWORDS + 4)..(2 * BLKWORDS + 3)
  <2>1. ctl' = WriteFifo(ctl, 1, 0) /\ pc' = pc + 1
    BY <1>8, WritingIs DEF Access
  <2>2. PICK k \in 0..(BLKWORDS - 1) : i = BLKWORDS + 4 + k
    <3>1. i - (BLKWORDS + 4) \in 0..(BLKWORDS - 1) /\ i = BLKWORDS + 4 + (i - (BLKWORDS + 4))
      BY <1>0, <1>8
    <3> QED
      BY <3>1
  <2>3. k \in 0..BLKWORDS /\ k + 1 \in 0..BLKWORDS /\ k \in 0..(BLKWORDS + 1)
        /\ pc = Base + BLKWORDS + 4 + k /\ pc' = Base + BLKWORDS + 4 + (k + 1)
    BY <1>0, <2>1, <2>2
  <2>4. ctl.data.from = "aux" /\ ctl.fifo[0] = Zeros
    BY <1>1, <2>3 DEF FillOK
  <2>5. CtlFine(ctl') /\ ~ctl'.busy /\ ctl'.n = ctl.n /\ ctl'.data = ctl.data /\ ctl'.fifo[0] = ctl.fifo[0]
    BY <1>1, <1>2, <2>1, WriteFifoIs
  <2>6. k + 1 \in 0..BLKWORDS /\ k + 1 < BLKWORDS + 1
    BY <1>0
  <2>7. FillOK'
    BY <1>0, <2>3, <2>4, <2>5, <2>6 DEF FillOK
  <2> QED
    BY <1>3, <2>1, <2>4, <2>5, <2>7 DEF HasSector
<1>9. CASE i = 2 * BLKWORDS + 4
  <2>1. ctl' = WriteData(ctl, Writing[i].v) /\ pc' = pc + 1
    BY <1>9, WritingIs DEF Access
  <2>2. CtlFine(ctl') /\ ~ctl'.busy /\ ctl'.n = ctl.n /\ ctl'.data.from = "bus" /\ ctl'.fifo = ctl.fifo
    BY <1>1, <2>1, WriteDataIs
  <2>3. pc = Base + BLKWORDS + 4 + BLKWORDS /\ BLKWORDS \in 0..(BLKWORDS + 1)
    BY <1>0, <1>9
  <2>4. ctl.fifo[0] = Zeros
    BY <1>1, <2>3 DEF FillOK
  <2>5. pc' = Base + 2 * BLKWORDS + 5
    BY <1>0, <1>9, <2>1
  <2>6. FillOK'
    BY <1>0, <2>2, <2>4, <2>5 DEF FillOK
  <2> QED
    BY <1>3, <2>1, <2>2, <2>6 DEF HasSector
<1>10. CASE i = 2 * BLKWORDS + 5
  <2>1. PICK w : w = WRITEOP(24)[1]
    OBVIOUS
  <2>2. w.op = "ctrl" /\ w.n = 24 /\ w.fifo /\ w.wr /\ ~w.reg /\ w.id = 0
    BY <2>1 DEF WRITEOP, Ctrl
  <2>3. ctl' = WriteCtrl(ctl, w) /\ pc' = pc + 1
    BY <1>10, <2>1, <2>2, WritingIs DEF Access
  <2>4. pc = Base + 2 * BLKWORDS + 5 /\ pc = Base + BLKWORDS + 4 + (BLKWORDS + 1) /\ BLKWORDS + 1 \in 0..(BLKWORDS + 1)
    BY <1>0, <1>10
  <2>5. ctl.fifo[0] = Zeros /\ ctl.data.from = "bus"
    BY <1>1, <2>4 DEF FillOK
  <2>6. CtlFine(ctl') /\ ctl'.busy /\ ctl'.phase = "send" /\ ctl'.n = 24 /\ ctl'.fifo = ctl.fifo /\ ctl'.data = ctl.data
    BY <1>1, <1>2, <2>2, <2>3, <2>5, StartIs
  <2>7. Core'
    BY <1>1, <2>6, CoreStarts
  <2>8. pc' > Base + 2 * BLKWORDS + 5 /\ pc' \in Int
    BY <1>0, <2>3, <2>4
  <2>9. QuietOK' /\ FillOK'
    BY <1>0, <2>8 DEF QuietOK, FillOK
  <2>10. WrittenOK'
    BY <2>5, <2>6, <2>8 DEF WrittenOK
  <2> QED
    BY <2>7, <2>8, <2>9, <2>10 DEF Inv
<1>11. \/ i = 1 \/ i = 2 \/ i \in 3..(BLKWORDS + 2) \/ i = BLKWORDS + 3
       \/ i \in (BLKWORDS + 4)..(2 * BLKWORDS + 3) \/ i = 2 * BLKWORDS + 4 \/ i = 2 * BLKWORDS + 5
  BY <1>0
<1> QED
  BY <1>4, <1>5, <1>6, <1>7, <1>8, <1>9, <1>10, <1>11

\* Every access of the CPU.
LEMMA CpuStep ==
    ASSUME Inv, Cpu
    PROVE  Inv'
<1>0. BLKWORDS \in Nat /\ BLKWORDS > 1 /\ Base \in Nat /\ Base > BLKWORDS /\ pc \in Int
  BY CardAssumption, BeforeIs DEF Inv
<1>1. pc \in 1..Len(main) /\ Len(main) \in Nat /\ Access(main[pc]) /\ card' = card /\ pulled' = pulled
  BY MainIs DEF Cpu
<1>2. Core /\ CtlFine(ctl)
  BY DEF Inv, Core, CtlOK
<1>3. CASE pc <= Base
  <2>1. pc \in 1..Base
    BY <1>0, <1>1, <1>3
  <2>2. PICK o : o = main[pc]
    OBVIOUS
  <2>3. o = Before[pc] /\ o \in Early /\ Access(o)
    BY <1>1, <2>1, <2>2, MainIs
  <2>4. /\ Core' /\ (ctl'.n = 24 => ctl.n = 24) /\ (o.op = "get" => ctl'.busy = ctl.busy) /\ (o.op = "wait" => ~ctl'.busy)
    BY <1>1, <1>2, <2>3, AnyAccess
  <2>5. pc' \in Int /\ pc' <= pc + 1
    BY <1>0, <2>3, EarlyGoes
  <2>6. ctl'.n # 24
    BY <1>0, <1>3, <2>4 DEF Inv, WrittenOK
  <2>7. QuietOK'
    <3>1. CASE pc < Base - BLKWORDS
      BY <1>0, <2>5, <3>1 DEF QuietOK
    <3>2. CASE pc = Base - BLKWORDS
      <4>1. o.op = "wait"
        BY <2>3, <3>2, BeforeIs
      <4> QED
        BY <2>4, <4>1 DEF QuietOK
    <3>3. CASE pc > Base - BLKWORDS
      <4>1. pc \in (Base - BLKWORDS + 1)..Base
        BY <1>0, <1>3, <3>3
      <4>2. o.op = "get"
        BY <2>3, <4>1, BeforeIs
      <4>3. ~ctl.busy
        BY <1>0, <1>3, <3>3 DEF Inv, QuietOK
      <4> QED
        BY <2>4, <4>2, <4>3 DEF QuietOK
    <3> QED
      BY <1>0, <3>1, <3>2, <3>3
  <2>8. FillOK'
    BY <1>0, <1>3, <2>5 DEF FillOK
  <2> QED
    BY <2>4, <2>5, <2>6, <2>7, <2>8 DEF Inv, WrittenOK
<1>4. CASE pc > Base /\ pc <= Base + 2 * BLKWORDS + 5
  <2>1. PICK i \in 1..(2 * BLKWORDS + 5) : pc = Base + i
    <3>1. pc - Base \in 1..(2 * BLKWORDS + 5) /\ pc = Base + (pc - Base)
      BY <1>0, <1>4
    <3> QED
      BY <3>1
  <2>2. main[pc] = Writing[i]
    BY <2>1, MainIs
  <2> QED
    BY <1>1, <2>1, <2>2, FillStep
<1>5. CASE pc > Base + 2 * BLKWORDS + 5
  <2>1. pc \in (Base + 2 * BLKWORDS + 6)..Len(main)
    BY <1>0, <1>1, <1>5
  <2>2. main[pc] \in Late
    BY <2>1, MainIs
  <2>3. /\ Core' /\ ctl'.fifo = ctl.fifo
        /\ ctl'.n = 24 => ctl.n = 24 /\ (ctl'.busy => ctl.busy) /\ (ctl'.data.from = "tx" => ctl.data.from = "tx")
    BY <1>1, <1>2, <2>2, AnyAccess
  <2>4. pc' \in Int /\ pc' > pc
    BY <1>0, <1>1, <2>2, LateGoes
  <2>5. pc' > Base + 2 * BLKWORDS + 5
    BY <1>0, <1>5, <2>4
  <2>6. QuietOK' /\ FillOK'
    BY <1>0, <2>4, <2>5 DEF QuietOK, FillOK
  <2>7. WrittenOK'
    BY <1>1, <2>3, <2>5 DEF WrittenOK, Inv
  <2> QED
    BY <2>3, <2>4, <2>6, <2>7 DEF Inv
<1> QED
  BY <1>0, <1>3, <1>4, <1>5

\* The rise of chip select.
LEMMA DeselectIs ==
    ASSUME NEW k, CardFine(k)
    PROVE  LET m == Deselect(k) IN
           CardFine(m) /\ m.cmdidx = 0 /\ m.accepted = k.accepted /\ m.failed = k.failed
BY DEF Deselect, CardFine, IsCard

\* While no card answers, the wires keep the FIFOs of a write, and show no answer to it.
LEMMA PulledWrite ==
    ASSUME NEW c, CtlFine(c), c.busy, c.n = 24
    PROVE  LET d == Settle(Took(c, Ones)) IN d.fifo = c.fifo /\ (d.data.from = "tx" => c.data.from = "tx")
<1>1. c.phase \in {"send", "answer", "txtoken", "txdata", "txcrc", "txanswer", "txbusy", "txidle"}
  BY DEF CtlFine, Phases, RxPhases, TxPhases
<1>2. CASE c.phase = "send"
  BY <1>2, TookSend
<1>3. CASE c.phase = "answer"
  <2>1. c.rsp = <<>> /\ Bit(Byt(Ones), 7)
    BY <1>3, Bytes DEF CtlFine
  <2> QED
    BY <1>3, <2>1, TookAnswer
<1>4. CASE c.phase \in {"txtoken", "txdata", "txcrc"}
  BY <1>4, TookBlock
<1>5. CASE c.phase = "txanswer"
  BY <1>5, Bytes, TookTxAnswer
<1>6. CASE c.phase \in {"txbusy", "txidle"}
  BY <1>6, TookTxEnd
<1> QED
  BY <1>1, <1>2, <1>3, <1>4, <1>5, <1>6

\* While a transfer is on, the program stands outside of the filling, and stays there.
LEMMA Outside ==
    ASSUME Inv, ctl.busy, pc' = pc
    PROVE  QuietOK' /\ FillOK' /\ pc' \in Int
<1>0. BLKWORDS \in Nat /\ BLKWORDS > 1 /\ Base \in Nat /\ Base > BLKWORDS /\ pc \in Int
  BY CardAssumption, BeforeIs DEF Inv
<1>1. ~(pc > Base - BLKWORDS /\ pc <= Base + 2 * BLKWORDS + 5)
  BY DEF Inv, QuietOK
<1> QED
  BY <1>0, <1>1 DEF QuietOK, FillOK

\* One unit on the wires.
LEMMA TransferStep ==
    ASSUME Inv, Transfer
    PROVE  Inv'
<1>1. Core /\ CtlFine(ctl) /\ CardFine(card) /\ card.cmdidx \in {0, 6, 7} /\ ctl.busy /\ ~card.failed /\ WrittenOK
  BY DEF Inv, Core, CtlOK, CardOK, Transfer, Running
<1>2. PICK u, d, m : /\ u = (IF pulled THEN Ones ELSE card.out) /\ d = Settle(Took(ctl, u)) /\ m = Receive(card, Sent(ctl))
  OBVIOUS
<1>3. /\ ctl' = d /\ pc' = pc /\ pulled' = pulled
      /\ card' = IF pulled THEN card ELSE IF d.busy THEN m ELSE Deselect(m)
  BY <1>2 DEF Transfer
<1>4. /\ CtlFine(d) /\ d.n = ctl.n /\ d.arg = ctl.arg /\ d.id = ctl.id /\ d.phase # "send"
  BY <1>1, <1>2, TookFine DEF Kept
<1>5. CardFine(m) /\ m.cmdidx \in {0, 6, 7}
  BY <1>1, <1>2, ReceiveFine
<1>6. CardFine(Deselect(m)) /\ Deselect(m).cmdidx = 0 /\ Deselect(m).accepted = m.accepted /\ Deselect(m).failed = m.failed
  BY <1>5, DeselectIs
<1>7. CardOK' /\ CtlOK' /\ Deselected'
  BY <1>1, <1>3, <1>4, <1>5, <1>6 DEF CardOK, CtlOK, Deselected, Fine
<1>8. ~pulled => (ctl.phase = "send" => card.cmdidx = 0)
  BY <1>1 DEF Core, Deselected, Fine
<1>9. ReadOK'
  <2> SUFFICES ASSUME ~pulled, ~card'.failed, d.busy, d.n = 17 PROVE Reading(card', d)
    BY <1>3 DEF ReadOK, Fine
  <2>1. card' = m /\ u = card.out /\ ctl.n = 17
    BY <1>2, <1>3, <1>4
  <2>2. ctl.phase # "send" => Reading(card, ctl)
    BY <1>1, <2>1 DEF Core, ReadOK, Fine
  <2> QED
    BY <1>1, <1>2, <1>8, <2>1, <2>2, ReadStep
<1>10. ctl.n = 24 /\ ~pulled => /\ d.busy /\ ~m.failed => Writes(m, d)
                                /\ d.fifo = ctl.fifo
                                /\ d.data.from = "tx" => m.accepted = ctl.fifo[0] \/ (ctl.data.from = "tx" /\ m.accepted = card.accepted)
  <2> SUFFICES ASSUME ctl.n = 24, ~pulled
               PROVE  /\ d.busy /\ ~m.failed => Writes(m, d)
                      /\ d.fifo = ctl.fifo
                      /\ d.data.from = "tx" => m.accepted = ctl.fifo[0] \/ (ctl.data.from = "tx" /\ m.accepted = card.accepted)
    OBVIOUS
  <2>1. ctl.phase # "send" => Writes(card, ctl)
    BY <1>1 DEF Core, WriteOK, Fine
  <2>2. u = card.out
    BY <1>2
  <2> QED
    BY <1>1, <1>2, <1>8, <2>1, <2>2, WriteStep
<1>11. WriteOK'
  BY <1>3, <1>4, <1>10 DEF WriteOK, Fine
<1>12. HasSector(d)
  <2>1. CASE d.n = 17
    <3>1. ctl.phase \in RxPhases => u \in Units(Sector(ctl.arg)) \union {Ones}
      <4>1. CASE pulled
        BY <1>2, <4>1
      <4>2. CASE ~pulled
        <5>1. u = card.out /\ "send" \notin RxPhases /\ "answer" \notin RxPhases
          BY <1>2, <4>2 DEF RxPhases
        <5>2. ctl.phase \in RxPhases => Reading(card, ctl)
          BY <1>1, <1>4, <2>1, <4>2, <5>1 DEF Core, ReadOK, Fine
        <5> QED
          BY <5>1, <5>2 DEF Reading
      <4> QED
        BY <4>1, <4>2
    <3> QED
      BY <1>1, <1>2, <1>4, <2>1, <3>1, ReadEnds
  <2>2. CASE d.n # 17
    BY <2>2 DEF HasSector
  <2> QED
    BY <2>1, <2>2
<1>13. WrittenOK'
  <2>1. ctl.n = 24 => d.fifo = ctl.fifo
    BY <1>1, <1>2, <1>10, PulledWrite
  <2>2. ctl.n = 24 /\ d.data.from = "tx" => card'.accepted = Zeros
    <3> SUFFICES ASSUME ctl.n = 24, d.data.from = "tx" PROVE card'.accepted = Zeros
      OBVIOUS
    <3>1. CASE pulled
      <4>1. ctl.data.from = "tx"
        BY <1>1, <1>2, <3>1, PulledWrite
      <4> QED
        BY <1>1, <1>3, <3>1, <4>1 DEF WrittenOK
    <3>2. CASE ~pulled
      <4>1. card'.accepted = m.accepted
        BY <1>3, <1>6, <3>2
      <4> QED
        BY <1>1, <1>10, <3>2, <4>1 DEF WrittenOK
    <3> QED
      BY <3>1, <3>2
  <2> QED
    BY <1>1, <1>3, <1>4, <2>1, <2>2 DEF WrittenOK
<1>14. Core'
  BY <1>3, <1>7, <1>9, <1>11, <1>12 DEF Core
<1> QED
  BY <1>1, <1>3, <1>13, <1>14, Outside DEF Inv

\* The watchdog runs out.
LEMMA WatchdogStep ==
    ASSUME Inv, Watchdog
    PROVE  Inv'
<1>1. Core /\ CtlFine(ctl) /\ CardFine(card) /\ card.cmdidx \in {0, 6, 7} /\ ctl.busy /\ WrittenOK
  BY DEF Inv, Core, CtlOK, CardOK, Watchdog
<1>2. PICK d, e : d = Expired(ctl) /\ e = [ctl EXCEPT !.phase = "off", !.err = TRUE] /\ d = Settle(e)
  BY DEF Expired
<1>3. IsCtl(e) /\ e.phase = "off" /\ e.err /\ e.n = ctl.n /\ e.id = ctl.id /\ e.fifo = ctl.fifo /\ e.data = ctl.data
  BY <1>1, <1>2 DEF CtlFine, IsCtl
<1>4. IsCtl(d) /\ d.phase = "off" /\ d.err /\ d.n = ctl.n /\ d.id = ctl.id /\ d.fifo = ctl.fifo /\ d.data = ctl.data /\ ~d.busy
  <2>1. d = Settle(e) /\ IsCtl(e)
    BY <1>2, <1>3
  <2>2. IsCtl(d) /\ d.phase = e.phase /\ d.n = e.n /\ d.id = e.id /\ d.fifo = e.fifo /\ d.data = e.data
    BY <2>1, Settled
  <2>3. d.err = e.err
    BY <2>1, Settled
  <2>4. ~d.busy
    BY <1>3, <2>1, Settled
  <2> QED
    BY <1>3, <2>2, <2>3, <2>4
<1>5. CtlFine(d)
  BY <1>1, <1>4 DEF CtlFine, FifosFine, Phases
<1>6. HasSector(d)
  BY <1>4 DEF HasSector
<1>7. ctl' = d /\ pc' = pc /\ pulled' = pulled /\ card' = (IF pulled THEN card ELSE Deselect(card))
  BY <1>2, <1>4 DEF Watchdog
<1>8. CardFine(Deselect(card)) /\ Deselect(card).cmdidx = 0 /\ Deselect(card).accepted = card.accepted
  BY <1>1, DeselectIs
<1>9. Core'
  BY <1>1, <1>4, <1>5, <1>6, <1>7, <1>8 DEF Core, CardOK, CtlOK, Deselected, ReadOK, WriteOK, Fine
<1>10. WrittenOK'
  BY <1>1, <1>4, <1>7, <1>8 DEF WrittenOK
<1> QED
  BY <1>1, <1>7, <1>9, <1>10, Outside DEF Inv

\* The card is ready: neither the controller nor what is on its way sees it.
LEMMA ReadyStep ==
    ASSUME Inv, CardReady
    PROVE  Inv'
<1>1. Core /\ CardFine(card)
  BY DEF Inv, Core, CardOK
<1>2. ctl' = ctl /\ pc' = pc /\ pulled' = pulled /\ card' = [card EXCEPT !.powerup = "done"]
  BY DEF CardReady, Ready
<1>3. /\ CardFine(card') /\ card'.cmdidx = card.cmdidx /\ card'.reading = card.reading /\ card'.out = card.out /\ card'.cmd = card.cmd
      /\ card'.rspbuf = card.rspbuf /\ card'.blk = card.blk /\ card'.rspidx = card.rspidx /\ card'.token = card.token
      /\ card'.rx = card.rx /\ card'.accepted = card.accepted /\ card'.failed = card.failed
  BY <1>1, <1>2 DEF CardFine, IsCard
<1>4. Reading(card', ctl) <=> Reading(card, ctl)
  BY <1>3 DEF Reading, Waiting, Answering
<1>5. Writes(card', ctl) <=> Writes(card, ctl)
  BY <1>3 DEF Writes, Waiting, Received
<1>6. Core'
  BY <1>1, <1>2, <1>3, <1>4, <1>5 DEF Core, CardOK, CtlOK, Deselected, ReadOK, WriteOK, Fine
<1> QED
  BY <1>2, <1>3, <1>6 DEF Inv, QuietOK, FillOK, WrittenOK

\* The card is pulled out.
LEMMA PullStep ==
    ASSUME Inv, Pull
    PROVE  Inv'
<1>1. ctl' = ctl /\ pc' = pc /\ pulled' /\ card' = card
  BY DEF Pull
<1>2. Core'
  BY <1>1 DEF Inv, Core, CardOK, CtlOK, Deselected, ReadOK, WriteOK, Fine
<1> QED
  BY <1>1, <1>2 DEF Inv, QuietOK, FillOK, WrittenOK

\* Power up.
LEMMA InvInit ==
    ASSUME Init
    PROVE  Inv
<1>0. BLKWORDS \in Nat /\ BLKWORDS > 1 /\ Base \in Nat /\ Base > BLKWORDS /\ RSPLEN \in Nat
  BY CardAssumption, BeforeIs
<1>1. PICK f \in BOOLEAN : card = PowerUp(f)
  BY DEF Init
<1>2. CardFine(card) /\ card.cmdidx = 0
  BY <1>0, <1>1 DEF PowerUp, CardFine, IsCard
<1>3. ctl = Controller /\ pc = 1
  BY DEF Init
<1>4. IsCtl(ctl) /\ ctl.id = 0 /\ ctl.phase = "off" /\ ~ctl.busy /\ ctl.n = 0
      /\ ctl.fifo = [f2 \in FIFOs |-> [i \in 1..BLKWORDS |-> Junk]] /\ ctl.data.from = "bus"
  BY <1>3 DEF Controller, IsCtl
<1>5. FifosFine(ctl)
  BY <1>4 DEF FifosFine, IsFifo
<1>6. CtlFine(ctl)
  BY <1>4, <1>5 DEF CtlFine, FIFOs, Phases
<1>7. Core
  BY <1>2, <1>4, <1>6 DEF Core, CardOK, CtlOK, Deselected, ReadOK, WriteOK, HasSector
<1>8. QuietOK /\ FillOK /\ WrittenOK
  BY <1>0, <1>3, <1>4 DEF QuietOK, FillOK, WrittenOK
<1> QED
  BY <1>3, <1>7, <1>8 DEF Inv

\* Every step keeps the invariant.
LEMMA InvNext ==
    ASSUME Inv, [Next]_vars
    PROVE  Inv'
<1>1. CASE UNCHANGED vars
  BY <1>1 DEF vars, Inv, Core, CardOK, CtlOK, Deselected, ReadOK, WriteOK, Fine, QuietOK, FillOK, WrittenOK
<1> QED
  BY <1>1, CpuStep, TransferStep, WatchdogStep, ReadyStep, PullStep DEF Next

\* So it holds in every state.
LEMMA InvHolds == Spec => []Inv
<1>1. Init => Inv
  BY InvInit
<1>2. Inv /\ [Next]_vars => Inv'
  BY InvNext
<1> QED
  BY <1>1, <1>2, PTL DEF Spec

\* A read of the SD card that ends without an error and with a good CRC left its sector in the FIFO.
THEOREM ReadsAreSectors == Spec => []ReadIsSector
<1>1. Inv => ReadIsSector
  BY DEF Inv, Core, HasSector, ReadIsSector, Shows
<1> QED
  BY <1>1, InvHolds, PTL

\* A write of the SD card whose answer the registers show was taken by the card, whole.
THEOREM WritesAreAccepted == Spec => []WriteIsAccepted
<1>1. Inv => WriteIsAccepted
  BY DEF Inv, WrittenOK, Zeros, WriteIsAccepted, Shows
<1> QED
  BY <1>1, InvHolds, PTL

--------------------------------------------------------------------------------
(* The second part: no assertion of the card fails (SdTest!CardAssertionsHold).

   The places between the accesses of the program get labels, which say how far the program
   has brought the card, what the data register holds and whether a command may be running.
   The program can be labelled from reset to its end (LabFits): each command of it meets a
   card that waits for that command, with the argument it accepts. *)

\* How far the program has brought the card, as the program may know it.
Stages == {"reset", "idle", "if", "ifalt", "polled", "complete", "op", "opalt"}
\* The reset states a card may be in at each stage: ACMD41 is answered before the program looks.
Resets(st) ==
    CASE st = "reset" -> {"POWERUP_RESET"}
      [] st = "idle"  -> {"CMD0_IDLE"}
      [] st \in {"if", "ifalt"} -> {"RCVD_CMD8", "RCVD_ACMD41", "RESET_COMPLETE"}
      [] st = "polled"   -> {"RCVD_ACMD41", "RESET_COMPLETE"}
      [] st = "complete" -> {"RESET_COMPLETE"}
      [] st \in {"op", "opalt"} -> {"IN_OPERATION"}
\* A card of this stage; after CMD55 the next command is an application's.
InStage(k, st) == k.reset_state \in Resets(st) /\ (k.altcmd <=> st \in {"ifalt", "opalt"})

\* The commands of the program, each with the stage it needs and the one it leads to.
Leads(st, n, arg, to) ==
    \/ st = "reset" /\ n = 0 /\ to = "idle"
    \/ st = "idle" /\ n = 1 /\ arg = HCS /\ to = "idle"
    \/ st = "idle" /\ n = 8 /\ arg = 421 /\ to = "if"
    \/ st = "if" /\ n = 55 /\ to = "ifalt"
    \/ st = "ifalt" /\ n = 41 /\ arg = HCS /\ to = "polled"
    \/ st = "complete" /\ n = 58 /\ to = "op"
    \/ st = "op" /\ n \in {9, 10, 13, 24} /\ to = "op"
    \/ st = "op" /\ n = 17 /\ arg < NSECTORS /\ to = "op"
    \/ st = "op" /\ n = 55 /\ to = "opalt"
    \/ st = "opalt" /\ n = 51 /\ to = "op"

\* Labels: no command runs and the data register holds v; none runs; one runs, or has just ended.
Known(v, st) == [quiet |-> TRUE, v |-> v, st |-> st]
Quiet(st)    == Known(-1, st)
Busy(st)     == [quiet |-> FALSE, v |-> -1, st |-> st]
\* All the labels there are.
Labels       == {Known(v, st) : v \in Int, st \in Stages} \union {Busy(st) : st \in Stages}

\* What SETAUX may find in the data register: the block length stays.
Small == 0..(2^16 - 1)

\* The accesses, by the labels on both sides: a write of the data register,
SetFlow(o, a, b) == o.op = "data" /\ a.quiet /\ b = Known(o.v, a.st)
\* ... the access that sets or reads the auxiliary register,
AuxFlow(o, a, b) ==
    o.op = "ctrl" /\ o.n \in {191, 255} /\ a.quiet /\ (o.n = 255 => a.v \in Small) /\ b = Known(0, a.st)
\* ... the start of a command the card is waiting for, with the argument it accepts,
CommandFlow(o, a, b) ==
    /\ o.op = "ctrl" /\ o.n \notin {191, 255} /\ a.quiet /\ a.v >= 0
    /\ Leads(a.st, o.n, a.v, b.st) /\ b = Busy(b.st)
    /\ o.wr <=> o.n = 24
    /\ o.n = 24 => o.clr
    /\ o.n = 41 => ~o.reg /\ ~o.fifo
\* ... those that change nothing a label tells,
SameFlow(o, a, b) == (o.op \in {"get", "iferr"} \/ (o.op = "put" /\ a.quiet)) /\ b = a
\* ... the wait for the controller,
WaitFlow(o, a, b) == o.op = "wait" /\ b = Known(a.v, a.st)
\* ... the end of the loop over ACMD41, which the card has left when the loop does.
PollFlow(o, a, b) == o.op = "while1" /\ a.quiet /\ a.st = "polled" /\ b = Known(a.v, "complete")

\* The labels on both sides of an access fit it.
Flow(o, a, b) ==
    SetFlow(o, a, b) \/ AuxFlow(o, a, b) \/ CommandFlow(o, a, b) \/ SameFlow(o, a, b) \/ WaitFlow(o, a, b) \/ PollFlow(o, a, b)

\* ACMD41 is answered: the first byte of the answer tells whether the card is ready.
Polling(k, c) ==
    /\ c.phase = "answer" /\ c.rsp = <<>>
    /\ k.rspbuf[1] = Byte(IF k.reset_state = "RESET_COMPLETE" THEN 0 ELSE 1)
    /\ \/ k.rspidx = 0 /\ k.out = Ones
       \/ k.rspidx = 1 /\ k.out = k.rspbuf[1]

\* A command on its way, and the card as it was: it has not looked at the command yet.
Unseen(k, c, st) ==
    /\ \E before \in Stages : Leads(before, c.n, c.arg, st) /\ InStage(k, before)
    /\ ~k.reading
    /\ \/ c.phase = "send" /\ k.cmdidx = 0
       \/ c.phase = "answer" /\ c.rsp = <<>> /\ k.cmdidx = 6 /\ k.cmd = Command(c.n, c.arg) /\ k.out = Ones
\* A command that the card has looked at.
Seen(k, c, st) ==
    /\ InStage(k, st) /\ k.cmdidx = 7
    /\ c.n # 24 => ~k.reading /\ c.phase \in {"answer"} \union RxPhases
    /\ c.n = 41 => Polling(k, c)
    /\ c.n = 24 => c.phase # "send" /\ (c.phase \in {"txanswer", "txbusy", "txidle"} => ~k.reading)
\* A command that runs, from either side of the card's look at it.
InProgress(k, c, st) ==
    /\ st = "polled" <=> c.n = 41
    /\ c.wr <=> c.n = 24
    /\ c.n = 41 => c.left = 1 /\ ~c.usefifo
    /\ c.n = 24 /\ c.phase \in {"send", "answer"} => ~c.err
    /\ Unseen(k, c, st) \/ Seen(k, c, st)
\* Between two commands; a card that said it is ready is.
AtRest(k, c, st) ==
    InStage(k, st) /\ ~k.reading /\ (st = "polled" => Bit(c.r1, 0) \/ k.reset_state = "RESET_COMPLETE")

\* What a label says of the card and the controller.
Labelled(k, c, a) ==
    /\ c.lgblklen = 9 /\ DOMAIN k.rspbuf = 1..RSPLEN
    /\ a.quiet => ~c.busy
    /\ a.v >= 0 => c.data.v = a.v
    /\ ~c.busy => AtRest(k, c, a.st)
    /\ c.busy => InProgress(k, c, a.st)

\* The labels around access i of program s, and the ones at the place it may jump to.
Edge(s, L, i) ==
    /\ Flow(s[i], L[i], L[i + 1])
    /\ s[i].op = "while1" => s[i].back \in Nat /\ i - s[i].back \in 1..i /\ L[i - s[i].back] = Known(L[i].v, "if")
    /\ s[i].op = "iferr" => s[i].skip \in Nat /\ i + 1 + s[i].skip \in 1..(Len(s) + 1) /\ L[i + 1 + s[i].skip] = L[i]
\* L labels the whole program, the place after its last access included.
Fits(s, L) ==
    L = [i \in 1..(Len(s) + 1) |-> L[i]] /\ (\A i \in 1..(Len(s) + 1) : L[i] \in Labels) /\ \A i \in 1..Len(s) : Edge(s, L, i)

\* A piece of program that can be labelled from a to b.
Goes(s, a, b) == s \in Seq(AllOps) /\ \E L : Fits(s, L) /\ L[1] = a /\ L[Len(s) + 1] = b

\* What a label says, and what the labels are.
LEMMA KnownIs == \A v, st : /\ Known(v, st).quiet /\ Known(v, st).v = v /\ Known(v, st).st = st
                            /\ ~Busy(st).quiet /\ Busy(st).v = -1 /\ Busy(st).st = st
BY DEF Known, Busy

\* They are labels.
LEMMA KnownIn == \A v \in Int, st \in Stages : Known(v, st) \in Labels
BY DEF Labels

\* No command runs: a label.
LEMMA QuietIn == \A st \in Stages : Quiet(st) \in Labels
<1>1. -1 \in Int
  OBVIOUS
<1> QED
  BY <1>1, KnownIn, Zenon DEF Quiet

\* A command may run: a label.
LEMMA BusyIn == \A st \in Stages : Busy(st) \in Labels
BY DEF Labels

\* What the parts of a label are.
LEMMA LabelIs ==
    ASSUME NEW a \in Labels
    PROVE  a.quiet \in BOOLEAN /\ a.v \in Int /\ a.st \in Stages /\ (~a.quiet => a.v = -1)
<1>1. CASE \E v \in Int, st \in Stages : a = Known(v, st)
  BY <1>1 DEF Known
<1>2. CASE \E st \in Stages : a = Busy(st)
  <2>1. PICK st \in Stages : a = Busy(st)
    BY <1>2
  <2>2. -1 \in Int
    OBVIOUS
  <2> QED
    BY <2>1, <2>2 DEF Busy
<1> QED
  BY <1>1, <1>2 DEF Labels

\* From place m on, L gives n + 1 places the labels of K.
Follows(K, L, m, n) == \A j \in 1..(n + 1) : L[m + j] = K[j]

\* An edge of a piece is an edge of any program that has it from some place on.
LEMMA EdgeMoves ==
    ASSUME NEW s \in Seq(AllOps), NEW t \in Seq(AllOps), NEW m \in Nat, NEW i \in 1..Len(s), NEW K, NEW L,
           m + Len(s) <= Len(t), t[m + i] = s[i], Follows(K, L, m, Len(s)), Edge(s, K, i)
    PROVE  Edge(t, L, m + i)
<1>0. Len(s) \in Nat /\ Len(t) \in Nat /\ i \in Nat
  OBVIOUS
<1>1. PICK o : o = s[i]
  OBVIOUS
<1>2. L[m + i] = K[i] /\ L[m + i + 1] = K[i + 1]
  <2>1. i \in 1..(Len(s) + 1) /\ i + 1 \in 1..(Len(s) + 1) /\ m + (i + 1) = m + i + 1
    BY <1>0
  <2> QED
    BY <2>1 DEF Follows
<1>3. o.op = "while1" => o.back \in Nat /\ m + i - o.back \in 1..(m + i) /\ L[m + i - o.back] = K[i - o.back]
  <2> SUFFICES ASSUME o.op = "while1" PROVE o.back \in Nat /\ m + i - o.back \in 1..(m + i) /\ L[m + i - o.back] = K[i - o.back]
    OBVIOUS
  <2>1. PICK b \in Nat : b = o.back /\ i - b \in 1..i
    BY <1>1 DEF Edge
  <2>2. PICK j \in 1..(Len(s) + 1) : j = i - b
    BY <1>0, <2>1
  <2>3. m + i - b = m + j
    BY <1>0, <2>1, <2>2
  <2>4. m + j \in 1..(m + i)
    BY <1>0, <2>1, <2>2, SMTT(60)
  <2>5. L[m + j] = K[j]
    BY DEF Follows
  <2> QED
    BY <2>1, <2>2, <2>3, <2>4, <2>5
<1>4. o.op = "iferr" => o.skip \in Nat /\ m + i + 1 + o.skip \in 1..(Len(t) + 1) /\ L[m + i + 1 + o.skip] = K[i + 1 + o.skip]
  <2> SUFFICES ASSUME o.op = "iferr" PROVE o.skip \in Nat /\ m + i + 1 + o.skip \in 1..(Len(t) + 1) /\ L[m + i + 1 + o.skip] = K[i + 1 + o.skip]
    OBVIOUS
  <2>1. PICK b \in Nat : b = o.skip /\ i + 1 + b \in 1..(Len(s) + 1)
    BY <1>1 DEF Edge
  <2>2. PICK j \in 1..(Len(s) + 1) : j = i + 1 + b
    BY <1>0, <2>1
  <2>3. m + i + 1 + b = m + j
    BY <1>0, <2>2
  <2>4. m + j \in 1..(Len(t) + 1)
    <3>1. PICK x \in Nat, y \in Nat : x = Len(s) /\ y = Len(t)
      BY <1>0
    <3>2. m + x <= y /\ j \in 1..(x + 1)
      BY <3>1
    <3>3. m + j \in 1..(y + 1)
      BY <3>2
    <3> QED
      BY <3>1, <3>3
  <2>5. L[m + j] = K[j]
    BY DEF Follows
  <2> QED
    BY <2>1, <2>2, <2>3, <2>4, <2>5
<1>5. t[m + i] = o /\ Flow(o, K[i], K[i + 1])
      /\ (o.op = "while1" => K[i - o.back] = Known(K[i].v, "if")) /\ (o.op = "iferr" => K[i + 1 + o.skip] = K[i])
  BY <1>1 DEF Edge
<1>6. Flow(t[m + i], L[m + i], L[m + i + 1])
  <2>1. Flow(o, L[m + i], L[m + i + 1])
    BY <1>2, <1>5, Zenon
  <2> QED
    BY <1>5, <2>1, Zenon
<1>7. t[m + i].op = "while1" => t[m + i].back \in Nat /\ (m + i) - t[m + i].back \in 1..(m + i)
                               /\ L[(m + i) - t[m + i].back] = Known(L[m + i].v, "if")
  <2> SUFFICES ASSUME o.op = "while1"
               PROVE  o.back \in Nat /\ (m + i) - o.back \in 1..(m + i) /\ L[(m + i) - o.back] = Known(L[m + i].v, "if")
    BY <1>5, Zenon
  <2>1. o.back \in Nat /\ (m + i) - o.back \in 1..(m + i) /\ L[(m + i) - o.back] = K[i - o.back]
    BY <1>3, SMTT(60)
  <2>2. K[i - o.back] = Known(L[m + i].v, "if")
    BY <1>2, <1>5, Zenon
  <2> QED
    BY <2>1, <2>2, Zenon
<1>8. t[m + i].op = "iferr" => t[m + i].skip \in Nat /\ (m + i) + 1 + t[m + i].skip \in 1..(Len(t) + 1)
                              /\ L[(m + i) + 1 + t[m + i].skip] = L[m + i]
  <2> SUFFICES ASSUME o.op = "iferr"
               PROVE  o.skip \in Nat /\ (m + i) + 1 + o.skip \in 1..(Len(t) + 1) /\ L[(m + i) + 1 + o.skip] = L[m + i]
    BY <1>5, Zenon
  <2>1. o.skip \in Nat /\ (m + i) + 1 + o.skip \in 1..(Len(t) + 1) /\ L[(m + i) + 1 + o.skip] = K[i + 1 + o.skip]
    BY <1>4
  <2>2. K[i + 1 + o.skip] = L[m + i]
    BY <1>2, <1>5, Zenon
  <2> QED
    BY <2>1, <2>2, Zenon
<1> QED
  BY <1>6, <1>7, <1>8, Zenon DEF Edge

\* Two pieces, one after the other.
LEMMA GoesOn == \A s, t, a, b, c : Goes(s, a, b) /\ Goes(t, b, c) => Goes(s \o t, a, c)
<1> SUFFICES ASSUME NEW s, NEW t, NEW a, NEW b, NEW c, Goes(s, a, b), Goes(t, b, c) PROVE Goes(s \o t, a, c)
  OBVIOUS
<1>1. s \in Seq(AllOps) /\ t \in Seq(AllOps)
  BY DEF Goes
<1>2. PICK K : Fits(s, K) /\ K[1] = a /\ K[Len(s) + 1] = b
  BY DEF Goes
<1>3. PICK J : Fits(t, J) /\ J[1] = b /\ J[Len(t) + 1] = c
  BY DEF Goes
<1>0. s \o t \in Seq(AllOps) /\ Len(s \o t) = Len(s) + Len(t)
  BY <1>1, Joined, Zenon
<1>13. PICK m \in Nat, n \in Nat : m = Len(s) /\ n = Len(t)
  BY <1>1
<1>14. PICK r \in Seq(AllOps) : r = s \o t
  BY <1>0
<1>4. m = Len(s) /\ n = Len(t) /\ r = s \o t /\ Len(r) = m + n
  BY <1>0, <1>13, <1>14
<1>5. (\A i \in 1..m : r[i] = s[i]) /\ (\A j \in 1..n : r[m + j] = t[j])
  BY <1>1, <1>4, Joined, ZenonT(60)
<1>6. PICK L : L = [i \in 1..(m + n + 1) |-> IF i <= m THEN K[i] ELSE J[i - m]]
  OBVIOUS
<1>7. \A i \in 1..(m + 1) : L[0 + i] = K[i]
  <2> SUFFICES ASSUME NEW i \in 1..(m + 1) PROVE L[0 + i] = K[i]
    OBVIOUS
  <2>1. CASE i <= m
    BY <1>6, <2>1
  <2>2. CASE i = m + 1
    <3>1. L[i] = J[1]
      BY <1>6, <2>2
    <3> QED
      BY <1>2, <1>3, <1>4, <2>2, <3>1
  <2> QED
    BY <2>1, <2>2
<1>8. \A j \in 1..(n + 1) : L[m + j] = J[j]
  BY <1>6
<1>9. \A i \in 1..(m + n + 1) : L[i] \in Labels
  <2> SUFFICES ASSUME NEW i \in 1..(m + n + 1) PROVE L[i] \in Labels
    OBVIOUS
  <2>1. CASE i \in 1..(m + 1)
    BY <1>2, <1>4, <1>7, <2>1 DEF Fits
  <2>2. CASE i > m
    <3>1. PICK j \in 1..(n + 1) : j = i - m
      BY <2>2
    <3> QED
      BY <1>3, <1>4, <1>8, <3>1 DEF Fits
  <2> QED
    BY <2>1, <2>2
<1>10. ASSUME NEW i \in 1..(m + n) PROVE Edge(r, L, i)
  <2>1. CASE i \in 1..m
    <3>1. Edge(s, K, i) /\ r[0 + i] = s[i]
      BY <1>2, <1>4, <1>5, <2>1 DEF Fits
    <3>2. Edge(r, L, 0 + i)
      <4>1. 0 + Len(s) <= Len(r) /\ Follows(K, L, 0, Len(s))
        BY <1>4, <1>7 DEF Follows
      <4> QED
        BY <1>1, <1>4, <2>1, <3>1, <4>1, EdgeMoves
    <3> QED
      BY <3>2
  <2>2. CASE i > m
    <3>1. PICK j \in 1..n : j = i - m /\ m + j = i
      BY <2>2
    <3>2. Edge(t, J, j) /\ r[m + j] = t[j]
      BY <1>3, <1>4, <1>5, <3>1 DEF Fits
    <3>3. Edge(r, L, m + j)
      <4>1. m + Len(t) <= Len(r) /\ Follows(J, L, m, Len(t))
        BY <1>4, <1>8 DEF Follows
      <4> QED
        BY <1>1, <1>4, <3>1, <3>2, <4>1, EdgeMoves
    <3> QED
      BY <3>1, <3>3
  <2> QED
    BY <2>1, <2>2
<1>11. Fits(r, L)
  BY <1>4, <1>6, <1>9, <1>10 DEF Fits
<1>12. L[1] = a /\ L[Len(r) + 1] = c
  <2>1. 1 \in 1..(m + 1) /\ n + 1 \in 1..(n + 1) /\ m + (n + 1) = Len(r) + 1
    BY <1>4
  <2> QED
    BY <1>2, <1>3, <1>4, <1>7, <1>8, <2>1
<1> QED
  BY <1>4, <1>11, <1>12 DEF Goes

\* One access that does not jump.
LEMMA GoesOne ==
    ASSUME NEW o \in AllOps, NEW a \in Labels, NEW b \in Labels, Flow(o, a, b), o.op \notin {"while1", "iferr"}
    PROVE  Goes(<<o>>, a, b)
<1>1. <<o>> \in Seq(AllOps) /\ Len(<<o>>) = 1 /\ <<o>>[1] = o
  OBVIOUS
<1>2. PICK s, L : s = <<o>> /\ L = [i \in 1..2 |-> IF i = 1 THEN a ELSE b]
  OBVIOUS
<1>3. L[1] = a /\ L[2] = b /\ L = [i \in 1..2 |-> L[i]] /\ \A i \in 1..2 : L[i] \in Labels
  BY <1>2
<1>4. Edge(s, L, 1)
  BY <1>1, <1>2, <1>3 DEF Edge
<1>5. Fits(s, L)
  BY <1>1, <1>2, <1>3, <1>4 DEF Fits
<1> QED
  BY <1>1, <1>2, <1>3, <1>5 DEF Goes

\* Accesses that change no label.
LEMMA GoesSame ==
    ASSUME NEW s \in Seq(AllOps), NEW a \in Labels,
           \A i \in 1..Len(s) : Flow(s[i], a, a) /\ s[i].op \notin {"while1", "iferr"}
    PROVE  Goes(s, a, a)
<1>1. PICK n \in Nat : n = Len(s)
  OBVIOUS
<1>2. PICK L : L = [i \in 1..(n + 1) |-> a]
  OBVIOUS
<1>3. L = [i \in 1..(n + 1) |-> L[i]] /\ \A i \in 1..(n + 1) : L[i] = a
  BY <1>2
<1>4. \A i \in 1..n : Edge(s, L, i)
  <2> SUFFICES ASSUME NEW i \in 1..n PROVE Edge(s, L, i)
    OBVIOUS
  <2>1. L[i] = a /\ L[i + 1] = a
    BY <1>3
  <2> QED
    BY <1>1, <2>1 DEF Edge
<1>5. Fits(s, L)
  BY <1>1, <1>3, <1>4 DEF Fits
<1>6. L[1] = a /\ L[Len(s) + 1] = a
  BY <1>1, <1>3
<1> QED
  BY <1>5, <1>6 DEF Goes

\* The loop goes back to the label its body starts from.
LEMMA GoesBack ==
    ASSUME NEW s, NEW a, NEW b \in Labels, Goes(s, a, b), b.quiet, b.st = "polled", a = Known(b.v, "if"), Len(s) > 0
    PROVE  Goes(s \o <<[op |-> "while1", back |-> Len(s)]>>, a, Known(b.v, "complete"))
<1>1. PICK n \in Nat \ {0} : n = Len(s) /\ s \in Seq(AllOps)
  BY DEF Goes
<1>2. PICK o : o = [op |-> "while1", back |-> n]
  OBVIOUS
<1>3. o \in AllOps /\ o.op = "while1" /\ o.back = n
  BY <1>2 DEF AllOps, Early, WhileOps
<1>4. PICK t, r : t = <<o>> /\ r = s \o t
  OBVIOUS
<1>5. t \in Seq(AllOps) /\ Len(t) = 1 /\ t[1] = o
  BY <1>3, <1>4, OneOp
<1>6. r \in Seq(AllOps) /\ Len(r) = n + 1 /\ (\A i \in 1..n : r[i] = s[i]) /\ r[n + 1] = o
  BY <1>1, <1>4, <1>5, OneMore
<1>7. PICK K : Fits(s, K) /\ K[1] = a /\ K[n + 1] = b
  BY <1>1 DEF Goes
<1>8. PICK e : e = Known(b.v, "complete")
  OBVIOUS
<1>9. e \in Labels
  <2>1. b.v \in Int
    BY LabelIs
  <2>2. "complete" \in Stages
    BY DEF Stages
  <2> QED
    BY <1>8, <2>1, <2>2, KnownIn, Zenon
<1>10. PICK L : L = [i \in 1..(n + 2) |-> IF i <= n + 1 THEN K[i] ELSE e]
  OBVIOUS
<1>11. (\A i \in 1..(n + 1) : L[0 + i] = K[i]) /\ L[n + 2] = e /\ L = [i \in 1..(n + 2) |-> L[i]]
       /\ L[n + 1] = K[n + 1] /\ L[1] = K[1]
  BY <1>10
<1>12. \A i \in 1..(n + 2) : L[i] \in Labels
  <2> SUFFICES ASSUME NEW i \in 1..(n + 2) PROVE L[i] \in Labels
    OBVIOUS
  <2>1. CASE i \in 1..(n + 1)
    <3>1. K[i] \in Labels
      BY <1>1, <1>7, <2>1 DEF Fits
    <3>2. L[i] = K[i]
      BY <1>10, <2>1
    <3> QED
      BY <3>1, <3>2
  <2>2. CASE i = n + 2
    BY <1>9, <1>11, <2>2
  <2> QED
    BY <2>1, <2>2
<1>13. ASSUME NEW i \in 1..(n + 1) PROVE Edge(r, L, i)
  <2>1. CASE i \in 1..n
    <3>1. Edge(s, K, i) /\ r[0 + i] = s[i] /\ 0 + Len(s) <= Len(r)
      BY <1>1, <1>6, <1>7, <2>1 DEF Fits
    <3>2. Follows(K, L, 0, Len(s))
      BY <1>1, <1>11 DEF Follows
    <3>3. Edge(r, L, 0 + i)
      BY <1>1, <1>6, <2>1, <3>1, <3>2, EdgeMoves
    <3> QED
      BY <3>3
  <2>2. CASE i = n + 1
    <3>1. L[n + 1] = b /\ L[n + 1 + 1] = e /\ L[1] = a
      BY <1>7, <1>11
    <3>2. n + 1 - n = 1 /\ 1 \in 1..(n + 1)
      OBVIOUS
    <3>3. Flow(o, b, e)
      BY <1>3, <1>8 DEF Flow, PollFlow
    <3> QED
      BY <1>3, <1>6, <2>2, <3>1, <3>2, <3>3 DEF Edge
  <2> QED
    BY <2>1, <2>2
<1>14. Fits(r, L)
  BY <1>6, <1>11, <1>12, <1>13 DEF Fits
<1>15. L[1] = a /\ L[Len(r) + 1] = e
  BY <1>6, <1>7, <1>11
<1>16. Goes(r, a, e)
  BY <1>6, <1>14, <1>15 DEF Goes
<1> QED
  BY <1>1, <1>2, <1>4, <1>8, <1>16

\* What is skipped ends with the label it starts from.
LEMMA GoesOver ==
    ASSUME NEW t, NEW a \in Labels, Goes(t, a, a)
    PROVE  Goes(<<[op |-> "iferr", skip |-> Len(t)]>> \o t, a, a)
<1>1. PICK n \in Nat : n = Len(t) /\ t \in Seq(AllOps)
  BY DEF Goes
<1>2. PICK o : o = [op |-> "iferr", skip |-> n]
  OBVIOUS
<1>3. o \in AllOps /\ o.op = "iferr" /\ o.skip = n
  BY <1>2 DEF AllOps, Late, ErrOps
<1>4. PICK s, r : s = <<o>> /\ r = s \o t
  OBVIOUS
<1>5. s \in Seq(AllOps) /\ Len(s) = 1 /\ s[1] = o
  BY <1>3, <1>4, OneOp
<1>6. r \in Seq(AllOps) /\ Len(r) = 1 + n /\ r[1] = o /\ \A j \in 1..n : r[1 + j] = t[j]
  <2>1. Len(r) = Len(s) + Len(t) /\ r \in Seq(AllOps) /\ (\A i \in 1..Len(s) : r[i] = s[i]) /\ \A j \in 1..Len(t) : r[Len(s) + j] = t[j]
    BY <1>1, <1>4, <1>5, Joined
  <2> QED
    BY <1>1, <1>5, <2>1
<1>7. PICK K : Fits(t, K) /\ K[1] = a /\ K[n + 1] = a
  BY <1>1 DEF Goes
<1>8. PICK L : L = [i \in 1..(n + 2) |-> IF i = 1 THEN a ELSE K[i - 1]]
  OBVIOUS
<1>9. (\A i \in 1..(n + 1) : L[1 + i] = K[i]) /\ L[1] = a /\ L = [i \in 1..(n + 2) |-> L[i]]
      /\ L[2] = K[1] /\ L[n + 2] = K[n + 1]
  BY <1>8
<1>10. \A i \in 1..(n + 2) : L[i] \in Labels
  <2> SUFFICES ASSUME NEW i \in 1..(n + 2) PROVE L[i] \in Labels
    OBVIOUS
  <2>1. CASE i = 1
    BY <1>9, <2>1
  <2>2. CASE i # 1
    <3>1. PICK j \in 1..(n + 1) : i = 1 + j
      <4>1. i - 1 \in 1..(n + 1) /\ i = 1 + (i - 1)
        BY <2>2
      <4> QED
        BY <4>1
    <3> QED
      BY <1>1, <1>7, <1>9, <3>1 DEF Fits
  <2> QED
    BY <2>1, <2>2
<1>11. ASSUME NEW i \in 1..(n + 1) PROVE Edge(r, L, i)
  <2>1. CASE i = 1
    <3>1. L[2] = a /\ L[n + 2] = a
      BY <1>7, <1>9
    <3>2. i + 1 = 2 /\ i + 1 + n = n + 2 /\ n + 2 \in 1..(Len(r) + 1)
      BY <1>6, <2>1
    <3>3. Flow(o, a, a)
      BY <1>3 DEF Flow, SameFlow
    <3> QED
      BY <1>3, <1>6, <1>9, <2>1, <3>1, <3>2, <3>3 DEF Edge
  <2>2. CASE i # 1
    <3>1. PICK j \in 1..n : i = 1 + j
      <4>1. i - 1 \in 1..n /\ i = 1 + (i - 1)
        BY <2>2
      <4> QED
        BY <4>1
    <3>2. Edge(t, K, j) /\ r[1 + j] = t[j] /\ 1 + Len(t) <= Len(r)
      BY <1>1, <1>6, <1>7, <3>1 DEF Fits
    <3>3. Follows(K, L, 1, Len(t))
      BY <1>1, <1>9 DEF Follows
    <3>4. Edge(r, L, 1 + j)
      BY <1>1, <1>6, <3>1, <3>2, <3>3, EdgeMoves
    <3> QED
      BY <3>1, <3>4
  <2> QED
    BY <2>1, <2>2
<1>12. Fits(r, L)
  BY <1>6, <1>9, <1>10, <1>11 DEF Fits
<1>13. L[1] = a /\ L[Len(r) + 1] = a
  BY <1>6, <1>7, <1>9
<1>14. Goes(r, a, a)
  BY <1>6, <1>12, <1>13 DEF Goes
<1> QED
  BY <1>1, <1>2, <1>4, <1>14

\* An access to the data register or to the auxiliary one, of an idle controller.
LEMMA GoesIdle ==
    ASSUME NEW st \in Stages, NEW w \in Int
    PROVE  /\ \A v \in Nat : Goes(Set(v), Known(w, st), Known(v, st))
           /\ Goes(READAUX, Known(w, st), Known(0, st)) /\ Goes(CLEARERR(READAUX), Known(w, st), Known(0, st))
           /\ w \in Small => Goes(SETAUX, Known(w, st), Known(0, st))
<1>0. Known(0, st) \in Labels /\ Known(w, st) \in Labels
  <2>1. 0 \in Int
    OBVIOUS
  <2> QED
    BY <2>1, KnownIn, Zenon
<1>1. ASSUME NEW v \in Nat PROVE Goes(Set(v), Known(w, st), Known(v, st))
  <2>1. PICK o : o = [op |-> "data", v |-> v]
    OBVIOUS
  <2>2. o \in AllOps /\ o.op = "data" /\ o.v = v
    BY <2>1 DEF AllOps, Early, Plain, DataOps
  <2>3. Flow(o, Known(w, st), Known(v, st))
    BY <2>2, KnownIs, Zenon DEF Flow, SetFlow
  <2>4. Known(v, st) \in Labels
    <3>1. v \in Int
      OBVIOUS
    <3> QED
      BY <3>1, KnownIn, Zenon
  <2>5. Goes(<<o>>, Known(w, st), Known(v, st))
    <3>1. o.op \notin {"while1", "iferr"}
      BY <2>2
    <3> QED
      BY <1>0, <2>2, <2>3, <2>4, <3>1, GoesOne, Zenon
  <2> QED
    BY <2>1, <2>5 DEF Set
<1>2. ASSUME NEW o \in AllOps, o.op = "ctrl", o.n \in {191, 255}, o.n = 255 => w \in Small
      PROVE  Goes(<<o>>, Known(w, st), Known(0, st))
  <2>1. Known(w, st).quiet /\ Known(w, st).v = w /\ Known(w, st).st = st
    BY KnownIs, Zenon
  <2>2. AuxFlow(o, Known(w, st), Known(0, st))
    BY <1>2, <2>1, Zenon DEF AuxFlow
  <2>3. Flow(o, Known(w, st), Known(0, st))
    BY <2>2, Zenon DEF Flow
  <2>4. o.op \notin {"while1", "iferr"}
    BY <1>2
  <2> QED
    BY <1>0, <2>3, <2>4, GoesOne, Zenon
<1>3. ASSUME NEW o \in CtrlOps, o.op = "ctrl", o.n \in {191, 255}, o.n = 255 => w \in Small
      PROVE  Goes(<<o>>, Known(w, st), Known(0, st))
  <2>1. o \in AllOps
    BY DEF AllOps, Early, Plain
  <2> QED
    BY <1>2, <1>3, <2>1, Zenon
<1>4. PICK c, k, s :
         /\ c = [op |-> "ctrl", n |-> 191, clr |-> FALSE, reg |-> FALSE, fifo |-> FALSE, wr |-> FALSE, id |-> 0]
         /\ k = [c EXCEPT !.clr = TRUE]
         /\ s = [op |-> "ctrl", n |-> 255, clr |-> FALSE, reg |-> FALSE, fifo |-> FALSE, wr |-> FALSE, id |-> 0]
  OBVIOUS
<1>5. /\ c \in CtrlOps /\ c.op = "ctrl" /\ c.n = 191 /\ s \in CtrlOps /\ s.op = "ctrl" /\ s.n = 255
      /\ k \in CtrlOps /\ k.op = "ctrl" /\ k.n = 191
  <2>1. c \in CtrlOps /\ c.op = "ctrl" /\ c.n = 191
    BY <1>4 DEF CtrlOps, FIFOs
  <2>2. s \in CtrlOps /\ s.op = "ctrl" /\ s.n = 255
    BY <1>4 DEF CtrlOps, FIFOs
  <2>3. k \in CtrlOps
    <3>1. [c EXCEPT !.clr = TRUE] \in CtrlOps
      BY <2>1 DEF CtrlOps
    <3> QED
      BY <1>4, <3>1
  <2>4. k.op = "ctrl" /\ k.n = 191
    BY <1>4
  <2> QED
    BY <2>1, <2>2, <2>3, <2>4
<1>6. READAUX = <<c>> /\ SETAUX = <<s>> /\ CLEARERR(READAUX) = <<k>>
  <2>1. READAUX = <<c>> /\ SETAUX = <<s>>
    BY <1>4 DEF READAUX, SETAUX, Ctrl
  <2> QED
    BY <1>4, <2>1 DEF CLEARERR
<1>7. Goes(<<c>>, Known(w, st), Known(0, st)) /\ Goes(<<k>>, Known(w, st), Known(0, st))
  BY <1>3, <1>5
<1>8. w \in Small => Goes(SETAUX, Known(w, st), Known(0, st))
  <2>1. w \in Small => Goes(<<s>>, Known(w, st), Known(0, st))
    BY <1>3, <1>5
  <2> QED
    BY <1>6, <2>1, Zenon
<1> QED
  BY <1>1, <1>6, <1>7, <1>8, Zenon

\* The start of a command.
LEMMA GoesCommand ==
    ASSUME NEW st \in Stages, NEW to \in Stages, NEW v \in Nat, NEW n \in Nat \ {24, 191, 255}, Leads(st, n, v, to)
    PROVE  /\ n # 17 => Goes(CMD(n), Known(v, st), Busy(to)) /\ Goes(CLEARERR(CMD(n)), Known(v, st), Busy(to))
           /\ n \notin {17, 41} => Goes(READREG(n), Known(v, st), Busy(to)) /\ Goes(CLEARERR(READREG(n)), Known(v, st), Busy(to))
           /\ \A id \in FIFOs : n # 41 => Goes(FIFO_OP(n, id), Known(v, st), Busy(to))
<1>0. Known(v, st) \in Labels /\ Busy(to) \in Labels
  <2>1. v \in Int
    OBVIOUS
  <2> QED
    BY <2>1, KnownIn, BusyIn, Zenon
<1>1. ASSUME NEW o \in CtrlOps, o.op = "ctrl", o.n = n, ~o.wr, n = 41 => ~o.reg /\ ~o.fifo
      PROVE  Goes(<<o>>, Known(v, st), Busy(to))
  <2>1. o \in AllOps
    BY DEF AllOps, Early, Plain
  <2>2. Known(v, st).quiet /\ Known(v, st).v = v /\ Known(v, st).st = st /\ Busy(to).st = to
    BY KnownIs, ZenonT(60)
  <2>3. o.n \notin {191, 255} /\ (o.wr <=> o.n = 24) /\ (o.n = 24 => o.clr) /\ (o.n = 41 => ~o.reg /\ ~o.fifo) /\ v >= 0
    BY <1>1
  <2>4. CommandFlow(o, Known(v, st), Busy(to))
    BY <1>1, <2>2, <2>3 DEF CommandFlow
  <2>5. Flow(o, Known(v, st), Busy(to)) /\ o.op \notin {"while1", "iferr"}
    BY <1>1, <2>4 DEF Flow
  <2> QED
    BY <1>0, <2>1, <2>5, GoesOne, Zenon
<1>2. PICK c : c = Ctrl(n)
  OBVIOUS
<1>3. n # 17 => c \in CtrlOps
  BY <1>2 DEF Ctrl, CtrlOps, FIFOs
<1>4. c = [op |-> "ctrl", n |-> n, clr |-> FALSE, reg |-> FALSE, fifo |-> FALSE, wr |-> FALSE, id |-> 0]
  BY <1>2 DEF Ctrl
<1>5. PICK k, r, rk : k = [c EXCEPT !.clr = TRUE] /\ r = [c EXCEPT !.reg = TRUE] /\ rk = [r EXCEPT !.clr = TRUE]
  OBVIOUS
<1>6. n # 17 => /\ k \in CtrlOps /\ k.op = "ctrl" /\ k.n = n /\ ~k.wr /\ ~k.reg /\ ~k.fifo
                /\ r \in CtrlOps /\ r.op = "ctrl" /\ r.n = n /\ ~r.wr
                /\ rk \in CtrlOps /\ rk.op = "ctrl" /\ rk.n = n /\ ~rk.wr
  BY <1>4, <1>5 DEF CtrlOps, FIFOs
<1>7. CMD(n) = <<c>> /\ CLEARERR(CMD(n)) = <<k>> /\ READREG(n) = <<r>> /\ CLEARERR(READREG(n)) = <<rk>>
  BY <1>2, <1>5 DEF CMD, CLEARERR, READREG
<1>8. n # 17 => Goes(CMD(n), Known(v, st), Busy(to)) /\ Goes(CLEARERR(CMD(n)), Known(v, st), Busy(to))
  BY <1>1, <1>3, <1>4, <1>6, <1>7, ZenonT(60)
<1>9. n \notin {17, 41} => Goes(READREG(n), Known(v, st), Busy(to)) /\ Goes(CLEARERR(READREG(n)), Known(v, st), Busy(to))
  BY <1>1, <1>6, <1>7
<1>10. ASSUME NEW id \in FIFOs, n # 41 PROVE Goes(FIFO_OP(n, id), Known(v, st), Busy(to))
  <2>1. PICK o : o = [c EXCEPT !.clr = TRUE, !.fifo = TRUE, !.id = id]
    OBVIOUS
  <2>2. o \in CtrlOps /\ o.op = "ctrl" /\ o.n = n /\ ~o.wr
    BY <1>4, <2>1 DEF CtrlOps
  <2> QED
    BY <1>1, <1>2, <1>10, <2>1, <2>2 DEF FIFO_OP
<1> QED
  BY <1>8, <1>9, <1>10

\* The write, the wait for the end of a command, and the FIFOs.
LEMMA GoesOther ==
    /\ \A v \in Nat : Leads("op", 24, v, "op") => Goes(WRITEOP(24), Known(v, "op"), Busy("op"))
    /\ \A st \in Stages : Goes(WAIT, Busy(st), Quiet(st))
    /\ \A id \in FIFOs, a \in Labels : Goes(Fifo(id), a, a) /\ (a.quiet => Goes(Fill(id), a, a))
<1>1. ASSUME NEW v \in Nat, Leads("op", 24, v, "op") PROVE Goes(WRITEOP(24), Known(v, "op"), Busy("op"))
  <2>1. PICK o : o = WRITEOP(24)[1]
    OBVIOUS
  <2>2. o.op = "ctrl" /\ o.n = 24 /\ o.wr /\ o.clr /\ o \in AllOps /\ WRITEOP(24) = <<o>>
    BY <2>1 DEF WRITEOP, Ctrl, AllOps, WriteOps
  <2>3. Flow(o, Known(v, "op"), Busy("op"))
    <3>1. Known(v, "op").quiet /\ Known(v, "op").v = v /\ Known(v, "op").st = "op" /\ Busy("op").st = "op" /\ v >= 0
      BY KnownIs
    <3> QED
      BY <1>1, <2>2, <3>1 DEF Flow, CommandFlow
  <2>4. Known(v, "op") \in Labels /\ Busy("op") \in Labels
    <3>1. v \in Int /\ "op" \in Stages
      BY DEF Stages
    <3> QED
      BY <3>1, KnownIn, BusyIn, Zenon
  <2>5. o.op \notin {"while1", "iferr"}
    BY <2>2
  <2>6. Goes(<<o>>, Known(v, "op"), Busy("op"))
    BY <2>2, <2>3, <2>4, <2>5, GoesOne, Zenon
  <2> QED
    BY <2>2, <2>6
<1>2. ASSUME NEW st \in Stages PROVE Goes(WAIT, Busy(st), Quiet(st))
  <2>1. PICK o : o = [op |-> "wait"]
    OBVIOUS
  <2>2. o.op = "wait" /\ o \in AllOps
    BY <2>1 DEF AllOps, Early, Plain, WaitOps
  <2>3. Flow(o, Busy(st), Quiet(st))
    BY <2>2, KnownIs DEF Flow, WaitFlow, Quiet
  <2>4. Busy(st) \in Labels /\ Quiet(st) \in Labels /\ o.op \notin {"while1", "iferr"}
    BY <2>2, QuietIn, BusyIn
  <2>5. Goes(<<o>>, Busy(st), Quiet(st))
    BY <2>2, <2>3, <2>4, GoesOne, Zenon
  <2> QED
    BY <2>1, <2>5 DEF WAIT
<1>3. ASSUME NEW id \in FIFOs, NEW a \in Labels, NEW o \in AllOps, o.op = "get" \/ (o.op = "put" /\ a.quiet),
             NEW s, s = [i \in 1..BLKWORDS |-> o]
      PROVE  Goes(s, a, a)
  <2>1. s \in Seq(AllOps) /\ \A i \in 1..Len(s) : s[i] = o
    BY <1>3, CardAssumption
  <2>2. Flow(o, a, a) /\ o.op \notin {"while1", "iferr"}
    BY <1>3 DEF Flow, SameFlow
  <2> QED
    BY <2>1, <2>2, GoesSame
<1>4. ASSUME NEW id \in FIFOs, NEW a \in Labels PROVE Goes(Fifo(id), a, a)
  <2>1. PICK o : o = [op |-> "get", id |-> id]
    OBVIOUS
  <2>2. o.op = "get" /\ o \in AllOps
    BY <2>1 DEF AllOps, Early, Plain, GetOps
  <2> QED
    BY <1>3, <2>1, <2>2 DEF Fifo
<1>5. ASSUME NEW id \in FIFOs, NEW a \in Labels, a.quiet PROVE Goes(Fill(id), a, a)
  <2>1. PICK o : o = [op |-> "put", id |-> id]
    OBVIOUS
  <2>2. o.op = "put" /\ o \in AllOps
    BY <2>1 DEF AllOps, PutOps
  <2> QED
    BY <1>3, <1>5, <2>1, <2>2 DEF Fill
<1> QED
  BY <1>1, <1>2, <1>4, <1>5

\* The steps of the protocol that the program takes.
LEMMA Protocol ==
    /\ Leads("reset", 0, 0, "idle") /\ Leads("idle", 1, HCS, "idle") /\ Leads("idle", 8, 421, "if")
    /\ Leads("if", 55, 0, "ifalt") /\ Leads("ifalt", 41, HCS, "polled") /\ Leads("complete", 58, 0, "op")
    /\ Leads("op", 9, 0, "op") /\ Leads("op", 10, 0, "op") /\ Leads("op", 13, 0, "op")
    /\ Leads("op", 55, 0, "opalt") /\ Leads("opalt", 51, 0, "op") /\ Leads("op", 24, 2, "op")
    /\ \A s \in 0..4 : Leads("op", 17, s, "op")
BY TestAssumption, CardAssumption DEF Leads

\* The accesses of the program, and the labels on both sides of each.
LEMMA Accesses ==
    ASSUME NEW st \in Stages, NEW w \in Int
    PROVE  /\ \A v \in {0, 2, 256, 421, 512, 513, 769, 867, 1793, HCS} : Goes(Set(v), Known(w, st), Known(v, st))
           /\ \A v \in {256, 512, 513, 867, 1793} : Goes(SETAUX, Known(v, st), Known(0, st))
<1>1. HCS \in Nat
  BY DEF HCS
<1>2. \A v \in {0, 2, 256, 421, 512, 513, 769, 867, 1793, HCS} : v \in Nat
  BY <1>1
<1>3. \A v \in {256, 512, 513, 867, 1793} : v \in Int /\ v \in Small
  <2>1. 2^16 = 65536
    OBVIOUS
  <2> QED
    BY <2>1 DEF Small
<1> QED
  BY <1>2, <1>3, GoesIdle

\* What the program is before it sends the first command.
LEMMA Begin ==
    Goes(Set(0) \o CLEARERR(READAUX) \o Set(0) \o CMD(0) \o WAIT, Known(0, "reset"), Quiet("idle"))
<1>1. "reset" \in Stages /\ "idle" \in Stages /\ 0 \in Int /\ 0 \in Nat \ {24, 191, 255} /\ 0 \in Nat /\ 0 # 17
  BY DEF Stages
<1>2. Goes(Set(0), Known(0, "reset"), Known(0, "reset")) /\ Goes(CLEARERR(READAUX), Known(0, "reset"), Known(0, "reset"))
  BY <1>1, GoesIdle, Zenon
<1>3. Goes(CMD(0), Known(0, "reset"), Busy("idle"))
  BY <1>1, Protocol, GoesCommand
<1>4. Goes(WAIT, Busy("idle"), Quiet("idle"))
  BY <1>1, GoesOther
<1> QED
  BY <1>2, <1>3, <1>4, GoesOn, Zenon

\* One round of the loop over CMD55 and ACMD41.
LEMMA Again ==
    Goes(Set(0) \o CMD(55) \o WAIT \o Set(HCS) \o CMD(41) \o WAIT, Known(-1, "if"), Quiet("polled"))
<1>1. "if" \in Stages /\ "ifalt" \in Stages /\ "polled" \in Stages /\ -1 \in Int /\ 55 \in Nat \ {24, 191, 255} /\ 41 \in Nat \ {24, 191, 255}
      /\ 0 \in Nat /\ 55 # 17 /\ 41 # 17 /\ HCS \in Nat
  BY DEF Stages, HCS
<1>2. Goes(Set(0), Known(-1, "if"), Known(0, "if")) /\ Goes(Set(HCS), Quiet("ifalt"), Known(HCS, "ifalt"))
  BY <1>1, GoesIdle DEF Quiet
<1>3. Goes(CMD(55), Known(0, "if"), Busy("ifalt")) /\ Goes(CMD(41), Known(HCS, "ifalt"), Busy("polled"))
  BY <1>1, Protocol, GoesCommand
<1>4. Goes(WAIT, Busy("ifalt"), Quiet("ifalt")) /\ Goes(WAIT, Busy("polled"), Quiet("polled"))
  BY <1>1, GoesOther
<1> QED
  BY <1>2, <1>3, <1>4, GoesOn, ZenonT(60)

\* Associativity, at the two places where a jump spans a piece.
LEMMA Regroup ==
    ASSUME NEW s \in Seq(AllOps), NEW t \in Seq(AllOps), NEW u \in Seq(AllOps)
    PROVE  (s \o t) \o u = s \o (t \o u)
BY ConcatAssociative

\* The bring-up of the card takes it from reset into operation.
LEMMA StartupGoes == Goes(Startup, Known(0, "reset"), Quiet("op"))
<1>1. /\ "idle" \in Stages /\ "if" \in Stages /\ "polled" \in Stages /\ "complete" \in Stages /\ "op" \in Stages
      /\ -1 \in Int /\ 0 \in Int /\ 0 \in Nat
  BY DEF Stages
<1>2. HCS \in Nat
  BY DEF HCS
<1> DEFINE a == Set(0) \o CLEARERR(READAUX) \o Set(0) \o CMD(0) \o WAIT
           b == a \o Set(769) \o Set(867) \o SETAUX \o READAUX \o Set(1793) \o SETAUX \o READAUX
           c == b \o Set(HCS) \o CMD(1) \o WAIT \o Set(421) \o READREG(8) \o WAIT
           w == <<[op |-> "while1", back |-> Len(Idle41)]>>
<1>3. Goes(a, Known(0, "reset"), Quiet("idle"))
  BY Begin, Zenon
<1>4. Goes(b, Known(0, "reset"), Known(0, "idle"))
  <2>1. Goes(Set(769), Quiet("idle"), Known(769, "idle")) /\ Goes(Set(867), Known(769, "idle"), Known(867, "idle"))
        /\ Goes(Set(1793), Known(0, "idle"), Known(1793, "idle"))
    BY <1>1, GoesIdle DEF Quiet
  <2>2. Goes(SETAUX, Known(867, "idle"), Known(0, "idle")) /\ Goes(SETAUX, Known(1793, "idle"), Known(0, "idle"))
    BY <1>1, Accesses
  <2>3. Goes(READAUX, Known(0, "idle"), Known(0, "idle"))
    BY <1>1, GoesIdle
  <2> HIDE DEF a
  <2> QED
    BY <1>3, <2>1, <2>2, <2>3, GoesOn
<1>5. Goes(c, Known(0, "reset"), Quiet("if"))
  <2>1. Goes(Set(HCS), Known(0, "idle"), Known(HCS, "idle")) /\ Goes(Set(421), Quiet("idle"), Known(421, "idle"))
    BY <1>1, <1>2, GoesIdle DEF Quiet
  <2>2. Goes(CMD(1), Known(HCS, "idle"), Busy("idle")) /\ Goes(READREG(8), Known(421, "idle"), Busy("if"))
    BY <1>1, <1>2, Protocol, GoesCommand
  <2>3. Goes(WAIT, Busy("idle"), Quiet("idle")) /\ Goes(WAIT, Busy("if"), Quiet("if"))
    BY <1>1, GoesOther
  <2> HIDE DEF b
  <2> QED
    BY <1>4, <2>1, <2>2, <2>3, GoesOn
<1>6. Goes(Idle41, Known(-1, "if"), Quiet("polled"))
  BY Again DEF Idle41
<1>7. Goes(Idle41 \o w, Quiet("if"), Quiet("complete"))
  <2>1. Quiet("polled") \in Labels /\ Quiet("polled").quiet /\ Quiet("polled").v = -1 /\ Quiet("polled").st = "polled"
    BY <1>1, QuietIn, KnownIs DEF Quiet
  <2>2. Len(Idle41) > 0
    <3>1. PICK L : L[1] = Known(-1, "if") /\ L[Len(Idle41) + 1] = Quiet("polled")
      BY <1>6 DEF Goes
    <3>2. Known(-1, "if").st = "if" /\ Len(Idle41) \in Nat
      BY <1>6, KnownIs DEF Goes
    <3>3. Len(Idle41) # 0
      BY <2>1, <3>1, <3>2
    <3> QED
      BY <3>2, <3>3
  <2> QED
    BY <1>6, <2>1, <2>2, GoesBack DEF Quiet
<1>8. Goes((c \o Idle41) \o w, Known(0, "reset"), Quiet("complete"))
  <2>2. c \in Seq(AllOps) /\ Idle41 \in Seq(AllOps) /\ w \in Seq(AllOps)
    <3>1. [op |-> "while1", back |-> Len(Idle41)] \in AllOps
      BY <1>6 DEF Goes, AllOps, Early, WhileOps
    <3>2. w \in Seq(AllOps)
      BY <3>1, OneOp
    <3> HIDE DEF c, w
    <3> QED
      BY <1>5, <1>6, <3>2, Zenon DEF Goes
  <2> HIDE DEF c, w
  <2>1. Goes(c \o (Idle41 \o w), Known(0, "reset"), Quiet("complete"))
    BY <1>5, <1>7, GoesOn, Zenon
  <2> QED
    BY <2>1, <2>2, Regroup
<1>9. Goes(Set(0), Quiet("complete"), Known(0, "complete")) /\ Goes(READREG(58), Known(0, "complete"), Busy("op"))
      /\ Goes(WAIT, Busy("op"), Quiet("op"))
  BY <1>1, Protocol, GoesIdle, GoesCommand, GoesOther DEF Quiet
<1> HIDE DEF c, w
<1>10. Goes(((((c \o Idle41) \o w) \o Set(0)) \o READREG(58)) \o WAIT, Known(0, "reset"), Quiet("op"))
  BY <1>8, <1>9, GoesOn, Zenon
<1>11. Startup = ((((c \o Idle41) \o w) \o Set(0)) \o READREG(58)) \o WAIT
  BY Zenon DEF Startup, c, w
<1> QED
  BY <1>10, <1>11, Zenon

\* What the rest of the program is made of, all of it in the card's last stage.
LEMMA OperatingAccesses ==
    ASSUME NEW w \in Int
    PROVE  /\ \A v \in {0, 2, 256, 512, 513, 1793} : Goes(Set(v), Known(w, "op"), Known(v, "op"))
           /\ \A v \in {256, 512, 513, 1793} : Goes(SETAUX, Known(v, "op"), Known(0, "op"))
           /\ Goes(READAUX, Known(w, "op"), Known(0, "op"))
           /\ \A id \in FIFOs : /\ Goes(Fifo(id), Known(w, "op"), Known(w, "op")) /\ Goes(Fifo(id), Busy("op"), Busy("op"))
                                /\ Goes(Fill(id), Known(w, "op"), Known(w, "op"))
                                /\ \A n \in {9, 10} : Goes(FIFO_OP(n, id), Known(0, "op"), Busy("op"))
                                /\ \A s \in 0..4 : Goes(READ_SECTOR(s, id), Known(w, "op"), Busy("op"))
           /\ Goes(CLEARERR(READREG(13)), Known(0, "op"), Busy("op"))
           /\ Goes(WAIT, Busy("op"), Quiet("op"))
           /\ Goes(WRITEOP(24), Known(2, "op"), Busy("op"))
<1>1. "op" \in Stages /\ 0 \in Nat /\ 2 \in Nat
  BY DEF Stages
<1>2. \A v \in {0, 2, 256, 512, 513, 1793} : Goes(Set(v), Known(w, "op"), Known(v, "op"))
  BY <1>1, Accesses
<1>3. \A v \in {256, 512, 513, 1793} : Goes(SETAUX, Known(v, "op"), Known(0, "op"))
  BY <1>1, Accesses
<1>4. Goes(READAUX, Known(w, "op"), Known(0, "op"))
  BY <1>1, GoesIdle
<1>5. ASSUME NEW id \in FIFOs
      PROVE  /\ Goes(Fifo(id), Known(w, "op"), Known(w, "op")) /\ Goes(Fifo(id), Busy("op"), Busy("op"))
             /\ Goes(Fill(id), Known(w, "op"), Known(w, "op"))
  <2>1. Known(w, "op") \in Labels /\ Known(w, "op").quiet /\ Busy("op") \in Labels
    BY <1>1, KnownIn, KnownIs, BusyIn
  <2> QED
    BY <2>1, GoesOther
<1>6. ASSUME NEW id \in FIFOs, NEW n \in {9, 10} PROVE Goes(FIFO_OP(n, id), Known(0, "op"), Busy("op"))
  <2>1. Leads("op", n, 0, "op") /\ n \in Nat \ {24, 191, 255} /\ n # 41
    BY Protocol
  <2> QED
    BY <1>1, <2>1, GoesCommand
<1>7. ASSUME NEW id \in FIFOs, NEW s \in 0..4 PROVE Goes(READ_SECTOR(s, id), Known(w, "op"), Busy("op"))
  <2>1. s \in Nat /\ Leads("op", 17, s, "op") /\ 17 \in Nat \ {24, 191, 255} /\ 17 # 41
    BY Protocol
  <2>2. Goes(FIFO_OP(17, id), Known(s, "op"), Busy("op"))
    BY <1>1, <2>1, GoesCommand
  <2>3. Goes(Set(s), Known(w, "op"), Known(s, "op"))
    BY <1>1, <2>1, GoesIdle
  <2> QED
    BY <2>2, <2>3, GoesOn, Zenon DEF READ_SECTOR
<1>8. Goes(CLEARERR(READREG(13)), Known(0, "op"), Busy("op"))
  BY <1>1, Protocol, GoesCommand
<1>9. Goes(WAIT, Busy("op"), Quiet("op")) /\ Goes(WRITEOP(24), Known(2, "op"), Busy("op"))
  BY <1>1, Protocol, GoesOther
<1> QED
  BY <1>2, <1>3, <1>4, <1>5, <1>6, <1>7, <1>8, <1>9

\* The reads of the CSD, the CID and the status leave the card in operation,
LEMMA RegistersGo == Goes(CsdCidAndStatus, Quiet("op"), Quiet("op"))
<1>1. -1 \in Int /\ 0 \in Int /\ 0 \in FIFOs /\ 1 \in FIFOs
  BY DEF FIFOs
<1>2. Goes(Set(513), Quiet("op"), Known(513, "op")) /\ Goes(Set(0), Quiet("op"), Known(0, "op"))
      /\ Goes(Set(0), Known(0, "op"), Known(0, "op"))
  BY <1>1, OperatingAccesses DEF Quiet
<1>3. Goes(SETAUX, Known(513, "op"), Known(0, "op")) /\ Goes(READAUX, Known(0, "op"), Known(0, "op"))
  BY <1>1, OperatingAccesses
<1>4. Goes(FIFO_OP(9, 0), Known(0, "op"), Busy("op")) /\ Goes(FIFO_OP(10, 1), Known(0, "op"), Busy("op"))
      /\ Goes(CLEARERR(READREG(13)), Known(0, "op"), Busy("op"))
  BY <1>1, OperatingAccesses
<1>5. Goes(WAIT, Busy("op"), Quiet("op")) /\ Goes(Fifo(0), Busy("op"), Busy("op")) /\ Goes(Fifo(1), Busy("op"), Busy("op"))
  BY <1>1, OperatingAccesses
<1> DEFINE a == Set(513) \o SETAUX \o READAUX \o Set(0) \o FIFO_OP(9, 0) \o WAIT
           b == a \o Set(513) \o SETAUX \o READAUX \o Set(0) \o FIFO_OP(10, 1) \o Fifo(0) \o WAIT
           c == b \o Set(0) \o CLEARERR(READREG(13)) \o Fifo(1) \o WAIT
<1>6. Goes(a, Quiet("op"), Quiet("op"))
  BY <1>2, <1>3, <1>4, <1>5, GoesOn
<1>7. Goes(b, Quiet("op"), Quiet("op"))
  <2> HIDE DEF a
  <2> QED
    BY <1>2, <1>3, <1>4, <1>5, <1>6, GoesOn
<1>8. Goes(c, Quiet("op"), Quiet("op"))
  <2> HIDE DEF b
  <2> QED
    BY <1>2, <1>4, <1>5, <1>7, GoesOn
<1> QED
  BY <1>8 DEF CsdCidAndStatus

\* ... and so do the second read of the CID and that of the SCR, after CMD55,
LEMMA ScrGoes == Goes(CidAgainAndScr, Quiet("op"), Quiet("op"))
<1>1. /\ -1 \in Int /\ 0 \in Int /\ 0 \in Nat /\ 0 \in FIFOs /\ 1 \in FIFOs /\ "op" \in Stages /\ "opalt" \in Stages
      /\ 55 \in Nat \ {24, 191, 255} /\ 51 \in Nat \ {24, 191, 255} /\ 55 # 17 /\ 51 # 41
  BY DEF FIFOs, Stages
<1>2. Goes(Set(512), Quiet("op"), Known(512, "op")) /\ Goes(Set(256), Quiet("op"), Known(256, "op"))
      /\ Goes(Set(0), Known(0, "op"), Known(0, "op"))
  BY <1>1, OperatingAccesses DEF Quiet
<1>3. Goes(SETAUX, Known(512, "op"), Known(0, "op")) /\ Goes(SETAUX, Known(256, "op"), Known(0, "op"))
  BY <1>1, OperatingAccesses
<1>4. Goes(FIFO_OP(10, 1), Known(0, "op"), Busy("op"))
  BY <1>1, OperatingAccesses
<1>5. Goes(WAIT, Busy("op"), Quiet("op")) /\ Goes(Fifo(1), Quiet("op"), Quiet("op")) /\ Goes(Fifo(0), Quiet("op"), Quiet("op"))
  BY <1>1, OperatingAccesses DEF Quiet
<1>6. Goes(CLEARERR(CMD(55)), Known(0, "op"), Busy("opalt")) /\ Goes(FIFO_OP(51, 0), Known(0, "opalt"), Busy("op"))
  BY <1>1, Protocol, GoesCommand
<1>7. Goes(WAIT, Busy("opalt"), Quiet("opalt")) /\ Goes(Set(0), Quiet("opalt"), Known(0, "opalt"))
  BY <1>1, GoesOther, GoesIdle DEF Quiet
<1> DEFINE a == Set(512) \o SETAUX \o Set(0) \o FIFO_OP(10, 1) \o WAIT \o Fifo(1)
           b == a \o Set(256) \o SETAUX \o Set(0) \o CLEARERR(CMD(55)) \o WAIT \o Set(0) \o FIFO_OP(51, 0) \o WAIT \o Fifo(0)
<1>8. Goes(a, Quiet("op"), Quiet("op"))
  BY <1>2, <1>3, <1>4, <1>5, GoesOn
<1>9. Goes(b, Quiet("op"), Quiet("op"))
  <2> HIDE DEF a
  <2> QED
    BY <1>2, <1>3, <1>5, <1>6, <1>7, <1>8, GoesOn
<1> QED
  BY <1>9 DEF CidAgainAndScr

\* ... the reads of the sectors,
LEMMA ReadsGo == Goes(ReadSectors, Quiet("op"), Quiet("op"))
<1>1. -1 \in Int /\ 0 \in Int /\ 0 \in FIFOs
  BY DEF FIFOs
<1>2. ASSUME NEW w \in Int, NEW s \in 0..4 PROVE Goes(ReadBack(s), Known(w, "op"), Quiet("op"))
  <2>1. Goes(READ_SECTOR(s, 0), Known(w, "op"), Busy("op")) /\ Goes(WAIT, Busy("op"), Quiet("op"))
        /\ Goes(Fifo(0), Quiet("op"), Quiet("op"))
    BY <1>1, OperatingAccesses DEF Quiet
  <2> QED
    BY <2>1, GoesOn, Zenon DEF ReadBack
<1>3. Goes(Set(1793), Quiet("op"), Known(1793, "op")) /\ Goes(SETAUX, Known(1793, "op"), Known(0, "op"))
  BY <1>1, OperatingAccesses DEF Quiet
<1>4. Goes(ReadBack(0), Known(0, "op"), Quiet("op"))
  BY <1>1, <1>2
<1>5. /\ Goes(ReadBack(1), Quiet("op"), Quiet("op")) /\ Goes(ReadBack(2), Quiet("op"), Quiet("op"))
      /\ Goes(ReadBack(3), Quiet("op"), Quiet("op")) /\ Goes(ReadBack(4), Quiet("op"), Quiet("op"))
  BY <1>1, <1>2 DEF Quiet
<1> QED
  BY <1>3, <1>4, <1>5, GoesOn DEF ReadSectors

\* ... and the write of one.
LEMMA WriteGoes == Goes(WriteSector, Quiet("op"), Known(0, "op"))
<1>1. -1 \in Int /\ 0 \in Int /\ 1793 \in Int /\ 2 \in Int /\ 0 \in FIFOs /\ 1 \in FIFOs /\ 2 \in 0..4 /\ 3 \in 0..4 /\ "op" \in Stages
  BY DEF FIFOs, Stages
<1>2. Goes(Set(1793), Quiet("op"), Known(1793, "op")) /\ Goes(Set(2), Known(0, "op"), Known(2, "op"))
      /\ Goes(Set(0), Quiet("op"), Known(0, "op"))
  BY <1>1, OperatingAccesses DEF Quiet
<1>3. Goes(SETAUX, Known(1793, "op"), Known(0, "op")) /\ Goes(READAUX, Known(0, "op"), Known(0, "op"))
  BY <1>1, OperatingAccesses
<1>4. Goes(Fill(0), Known(0, "op"), Known(0, "op")) /\ Goes(Fill(1), Known(0, "op"), Known(0, "op"))
      /\ Goes(Fifo(0), Busy("op"), Busy("op")) /\ Goes(Fifo(1), Known(0, "op"), Known(0, "op"))
  BY <1>1, OperatingAccesses
<1>5. Goes(WRITEOP(24), Known(2, "op"), Busy("op")) /\ Goes(WAIT, Busy("op"), Quiet("op"))
  BY <1>1, OperatingAccesses
<1>6. Goes(READ_SECTOR(3, 0), Quiet("op"), Busy("op")) /\ Goes(READ_SECTOR(2, 1), Quiet("op"), Busy("op"))
  BY <1>1, OperatingAccesses DEF Quiet
<1>7. Goes(SETAUX, Known(0, "op"), Known(0, "op"))
  <2>1. 0 \in Small
    BY DEF Small
  <2> QED
    BY <1>1, <2>1, GoesIdle
<1> DEFINE a == Set(1793) \o SETAUX \o Fill(0) \o SETAUX \o Fill(1) \o Set(2) \o WRITEOP(24) \o WAIT
           b == a \o READ_SECTOR(3, 0) \o WAIT
           e == <<[op |-> "iferr", skip |-> Len(Again3)]>>
<1>8. Goes(a, Quiet("op"), Quiet("op"))
  BY <1>2, <1>3, <1>4, <1>5, <1>7, GoesOn
<1>9. Goes(b, Quiet("op"), Quiet("op"))
  <2> HIDE DEF a
  <2> QED
    BY <1>5, <1>6, <1>8, GoesOn
<1>10. Goes(Again3, Quiet("op"), Quiet("op"))
  BY <1>5, <1>6, GoesOn DEF Again3
<1>11. Goes(e \o Again3, Quiet("op"), Quiet("op"))
  BY <1>1, <1>10, QuietIn, GoesOver
<1>12. Goes((b \o e) \o Again3, Quiet("op"), Quiet("op"))
  <2>1. b \in Seq(AllOps) /\ e \in Seq(AllOps) /\ Again3 \in Seq(AllOps)
    <3>1. [op |-> "iferr", skip |-> Len(Again3)] \in AllOps
      BY <1>10 DEF Goes, AllOps, Late, ErrOps
    <3>2. e \in Seq(AllOps)
      BY <3>1, OneOp
    <3> HIDE DEF b, e
    <3> QED
      BY <1>9, <1>10, <3>2, Zenon DEF Goes
  <2> HIDE DEF b, e
  <2>2. Goes(b \o (e \o Again3), Quiet("op"), Quiet("op"))
    BY <1>9, <1>11, GoesOn, Zenon
  <2> QED
    BY <2>1, <2>2, Regroup
<1> DEFINE d == (b \o e) \o Again3
<1>13. Goes(d \o READ_SECTOR(2, 1) \o Fifo(0) \o WAIT \o Set(0) \o READAUX \o Fifo(1), Quiet("op"), Known(0, "op"))
  <2>1. Goes(d, Quiet("op"), Quiet("op"))
    BY <1>12
  <2> HIDE DEF d
  <2> QED
    BY <1>2, <1>3, <1>4, <1>5, <1>6, <2>1, GoesOn
<1> QED
  BY <1>13 DEF WriteSector

\* The labels of the whole program: what the card and the controller can be doing at each of its accesses.
Lab == CHOOSE L : Fits(main, L) /\ L[1] = Known(0, "reset")

\* The program can be labelled: no command of it comes out of turn.
LEMMA LabFits == main \in Seq(AllOps) /\ Fits(main, Lab) /\ Lab[1] = Known(0, "reset")
<1>1. Goes(main, Known(0, "reset"), Known(0, "op"))
  BY StartupGoes, RegistersGo, ScrGoes, ReadsGo, WriteGoes, GoesOn, Zenon DEF main
<1> QED
  BY <1>1, Zenon DEF Goes, Lab

--------------------------------------------------------------------------------
(* What the card does with a command in its turn, and what it keeps meanwhile. *)

\* Two cards that differ in their response, their block and what has failed, at most.
Alike(d, c) ==
    /\ IsCard(d) /\ d.unset = c.unset /\ d.reset_state = c.reset_state /\ d.altcmd = c.altcmd /\ d.powerup = c.powerup
    /\ d.cmdidx = c.cmdidx /\ d.reading = c.reading /\ d.rspidx = c.rspidx /\ d.out = c.out

\* A check that fails changes no more than that.
LEMMA CheckAlike ==
    ASSUME NEW c, IsCard(c), NEW h
    PROVE  Alike(Check(c, h), c) /\ Check(c, h).rspbuf = c.rspbuf /\ (Check(c, h).failed <=> c.failed \/ ~h)
<1>1. PICK f : f = (c.failed \/ ~h)
  BY Zenon
<1> DEFINE d == [c EXCEPT !.failed = f]
<1>2. Check(c, h) = d
  BY <1>1 DEF Check
<1>3. /\ IsCard(d) /\ d.failed = f /\ d.rspbuf = c.rspbuf
      /\ d.unset = c.unset /\ d.reset_state = c.reset_state /\ d.altcmd = c.altcmd /\ d.powerup = c.powerup
      /\ d.cmdidx = c.cmdidx /\ d.reading = c.reading /\ d.rspidx = c.rspidx /\ d.out = c.out
  BY DEF IsCard
<1> HIDE DEF d
<1>4. Alike(d, c)
  BY <1>3 DEF Alike
<1> QED
  BY <1>1, <1>2, <1>3, <1>4, Zenon

\* The answer changes no more either,
LEMMA RespondAlike ==
    ASSUME NEW c, IsCard(c), NEW bytes, NEW dly
    PROVE  LET d == Respond(c, bytes, dly) IN Alike(d, c) /\ d.failed = c.failed /\ DOMAIN d.rspbuf = 1..RSPLEN
<1>1. PICK b : b = Response(bytes)
  OBVIOUS
<1>2. DOMAIN b = 1..RSPLEN
  BY <1>1 DEF Response
<1>3. Respond(c, bytes, dly) = [c EXCEPT !.rspbuf = b, !.rspdly = dly]
  BY <1>1 DEF Respond
<1> QED
  BY <1>2, <1>3 DEF IsCard, Alike

\* ... nor does a block that is made ready.
LEMMA BlockAlike ==
    ASSUME NEW c, IsCard(c), NEW ws
    PROVE  LET d == SendBlock(c, ws) IN Alike(d, c) /\ d.failed = c.failed /\ DOMAIN d.rspbuf = 1..RSPLEN
<1>1. PICK b, x : b = Response(<<0>>) /\ x = Block(ws)
  OBVIOUS
<1>2. DOMAIN b = 1..RSPLEN
  BY <1>1 DEF Response
<1>3. SendBlock(c, ws) = [c EXCEPT !.rspbuf = b, !.blkdly = BLKDLY, !.blk = x]
  BY <1>1 DEF SendBlock
<1> QED
  BY <1>2, <1>3 DEF IsCard, Alike

\* A response that also moves the card on.
LEMMA MoveOn ==
    ASSUME NEW c, IsCard(c), NEW r
    PROVE  LET d == [c EXCEPT !.reset_state = r] IN
           /\ IsCard(d) /\ d.unset = c.unset /\ d.reset_state = r /\ d.altcmd = c.altcmd /\ d.cmdidx = c.cmdidx
           /\ d.reading = c.reading /\ d.rspbuf = c.rspbuf /\ d.failed = c.failed
BY DEF IsCard

\* What is left of a command that the card was waiting for.
Followed(d, c, st) ==
    /\ d.unset = c.unset /\ ~d.failed /\ InStage(d, st) /\ d.cmdidx = c.cmdidx /\ DOMAIN d.rspbuf = 1..RSPLEN

\* The reset states of the stages a command needs, one by one.
LEMMA ResetsAre ==
    /\ Resets("reset") = {"POWERUP_RESET"} /\ Resets("idle") = {"CMD0_IDLE"}
    /\ Resets("if") = {"RCVD_CMD8", "RCVD_ACMD41", "RESET_COMPLETE"} /\ Resets("ifalt") = {"RCVD_CMD8", "RCVD_ACMD41", "RESET_COMPLETE"}
    /\ Resets("polled") = {"RCVD_ACMD41", "RESET_COMPLETE"} /\ Resets("complete") = {"RESET_COMPLETE"}
    /\ Resets("op") = {"IN_OPERATION"} /\ Resets("opalt") = {"IN_OPERATION"}
BY DEF Resets

\* What the card does with each command.
LEMMA NormalReset == \A c, arg : NormalCommand(c, 0, arg) = [Respond(c, <<1>>, 4) EXCEPT !.reset_state = "CMD0_IDLE"]
BY DEF NormalCommand
\* CMD1, with the argument of the bring-up.
LEMMA NormalInit == \A c, arg : NormalCommand(c, 1, arg) = Respond(Check(c, OnlyHCS(arg)), <<2>>, 4)
BY DEF NormalCommand
\* The check of CMD8's argument.
Range8(c, arg) == arg < 4096 /\ c.reset_state \in {"CMD0_IDLE", "RCVD_CMD8"}
\* The answer to CMD8.
Bytes8(arg) == <<0, 0, 0, IF (arg \div 256) % 16 = 1 THEN 1 ELSE 0, arg % 256>>
\* CMD8: the echo of its argument.
LEMMA NormalIf ==
    \A c, arg : NormalCommand(c, 8, arg) = [Respond(Check(c, Range8(c, arg)), Bytes8(arg), 4) EXCEPT !.reset_state = "RCVD_CMD8"]
BY DEF NormalCommand, Range8, Bytes8
\* The three commands that have the card send data.
LEMMA NormalRead ==
    \A c, arg : /\ NormalCommand(c, 9, arg) = SendBlock(Operating(c), Csd)
                /\ NormalCommand(c, 10, arg) = SendBlock(Operating(c), Cid)
                /\ NormalCommand(c, 17, arg) = SendBlock(Check(Operating(c), arg < NSECTORS), Sector(arg))
BY DEF NormalCommand
\* CMD13.
LEMMA NormalStatus == \A c, arg : NormalCommand(c, 13, arg) = Respond(Operating(c), <<0, 0>>, 4)
BY DEF NormalCommand
\* CMD24: the data comes next.
LEMMA NormalWrite ==
    \A c, arg : NormalCommand(c, 24, arg) = [c EXCEPT !.rspbuf = Response(<<>>), !.reading = TRUE, !.token = FALSE, !.out = Byte(0)]
BY DEF NormalCommand
\* CMD55: an application's command follows.
LEMMA NormalApp == \A c, arg : NormalCommand(c, 55, arg) = [Respond(c, <<0>>, 2) EXCEPT !.altcmd = TRUE]
BY DEF NormalCommand
\* The answer to CMD58.
Bytes58(c) == <<0, IF c.powerup # "done" THEN 192 ELSE 64, 255, 128, 0>>
\* CMD58.
LEMMA NormalOcr ==
    \A c, arg : NormalCommand(c, 58, arg) =
                    [Respond(c, Bytes58(c), 4) EXCEPT !.reset_state = IF @ = "RESET_COMPLETE" THEN "IN_OPERATION" ELSE @]
BY DEF NormalCommand, Bytes58
\* A number the card does not know.
LEMMA NormalOther ==
    ASSUME NEW c, NEW n, NEW arg, n \notin {0, 1, 8, 9, 10, 13, 17, 24, 55, 58}
    PROVE  NormalCommand(c, n, arg) = Respond(Check(c, FALSE), <<4>>, 4)
BY DEF NormalCommand

\* A command in its turn, that no CMD55 has announced: no assertion fails.
LEMMA NormalFollowed ==
    ASSUME NEW c, IsCard(c), ~c.failed, c.altcmd = FALSE, ~c.reading, DOMAIN c.rspbuf = 1..RSPLEN,
           NEW before, NEW st, NEW n, NEW arg, Leads(before, n, arg, st), c.reset_state \in Resets(before),
           before \notin {"ifalt", "opalt"}
    PROVE  LET d == NormalCommand(c, n, arg) IN Followed(d, c, st) /\ (d.reading <=> n = 24)
<1> DEFINE d == NormalCommand(c, n, arg)
<1>0. n \in {0, 1, 8, 9, 10, 13, 17, 24, 55, 58}
  BY DEF Leads
<1>1. CASE n = 0
  <2>1. PICK e : e = Respond(c, <<1>>, 4) /\ d = [e EXCEPT !.reset_state = "CMD0_IDLE"]
    BY <1>1, NormalReset
  <2>2. st = "idle"
    BY <1>1 DEF Leads
  <2>3. Alike(e, c) /\ e.failed = c.failed /\ DOMAIN e.rspbuf = 1..RSPLEN
    BY <2>1, RespondAlike
  <2> HIDE DEF d
  <2>4. d.unset = e.unset /\ d.reset_state = "CMD0_IDLE" /\ d.altcmd = e.altcmd /\ d.cmdidx = e.cmdidx
        /\ d.reading = e.reading /\ d.rspbuf = e.rspbuf /\ d.failed = e.failed
    BY <2>1, <2>3, MoveOn DEF Alike
  <2> QED
    BY <1>1, <2>2, <2>3, <2>4, ResetsAre DEF Alike, Followed, InStage, d
<1>2. CASE n = 1
  <2>1. PICK e : e = Check(c, OnlyHCS(arg)) /\ d = Respond(e, <<2>>, 4)
    BY <1>2, NormalInit
  <2>2. st = "idle" /\ before = "idle" /\ OnlyHCS(arg)
    BY <1>2 DEF Leads, OnlyHCS, HCS
  <2>3. Alike(e, c) /\ ~e.failed
    BY <2>1, <2>2, CheckAlike
  <2> HIDE DEF d
  <2>4. Alike(d, e) /\ ~d.failed /\ DOMAIN d.rspbuf = 1..RSPLEN
    BY <2>1, <2>3, RespondAlike DEF Alike
  <2> QED
    BY <1>2, <2>2, <2>3, <2>4 DEF Alike, Followed, InStage, d
<1>3. CASE n = 8
  <2>1. PICK e, f : e = Check(c, Range8(c, arg)) /\ f = Respond(e, Bytes8(arg), 4) /\ d = [f EXCEPT !.reset_state = "RCVD_CMD8"]
    BY <1>3, NormalIf
  <2>2. st = "if" /\ before = "idle" /\ Range8(c, arg)
    <3>1. st = "if" /\ before = "idle" /\ arg < 4096
      BY <1>3 DEF Leads
    <3> QED
      BY <3>1, ResetsAre DEF Range8
  <2> HIDE DEF d
  <2>3. Alike(e, c) /\ ~e.failed
    BY <2>1, <2>2, CheckAlike
  <2>4. Alike(f, e) /\ ~f.failed /\ DOMAIN f.rspbuf = 1..RSPLEN
    BY <2>1, <2>3, RespondAlike DEF Alike
  <2>5. d.unset = f.unset /\ d.reset_state = "RCVD_CMD8" /\ d.altcmd = f.altcmd /\ d.cmdidx = f.cmdidx
        /\ d.reading = f.reading /\ d.rspbuf = f.rspbuf /\ d.failed = f.failed
    BY <2>1, <2>4, MoveOn DEF Alike
  <2> QED
    BY <1>3, <2>2, <2>3, <2>4, <2>5, ResetsAre DEF Alike, Followed, InStage, d
<1>4. CASE n \in {9, 10, 17}
  <2>1. st = "op" /\ before = "op" /\ c.reset_state = "IN_OPERATION"
    <3>1. st = "op" /\ before = "op"
      BY <1>4 DEF Leads
    <3> QED
      BY <3>1, ResetsAre
  <2>2. n = 17 => arg < NSECTORS
    BY DEF Leads
  <2>3. PICK e : e = Operating(c)
    OBVIOUS
  <2>4. Alike(e, c) /\ ~e.failed
    BY <2>1, <2>3, CheckAlike DEF Operating
  <2>5. PICK f : f = IF n = 17 THEN Check(e, arg < NSECTORS) ELSE e
    OBVIOUS
  <2>6. Alike(f, e) /\ ~f.failed
    BY <2>2, <2>4, <2>5, CheckAlike DEF Alike
  <2>7. PICK ws : d = SendBlock(f, ws)
    <3>1. CASE n = 9
      BY <2>3, <2>5, <3>1, NormalRead
    <3>2. CASE n = 10
      BY <2>3, <2>5, <3>2, NormalRead
    <3>3. CASE n = 17
      BY <2>3, <2>5, <3>3, NormalRead
    <3> QED
      BY <1>4, <3>1, <3>2, <3>3
  <2> HIDE DEF d
  <2>8. Alike(d, f) /\ ~d.failed /\ DOMAIN d.rspbuf = 1..RSPLEN
    BY <2>6, <2>7, BlockAlike DEF Alike
  <2>9. n # 24
    BY <1>4
  <2> QED
    BY <2>1, <2>4, <2>6, <2>8, <2>9, ResetsAre DEF Alike, Followed, InStage, d
<1>5. CASE n = 13
  <2>1. PICK e : e = Operating(c) /\ d = Respond(e, <<0, 0>>, 4)
    BY <1>5, NormalStatus
  <2>2. st = "op" /\ before = "op" /\ c.reset_state = "IN_OPERATION"
    BY <1>5, ResetsAre DEF Leads
  <2>3. Alike(e, c) /\ ~e.failed
    BY <2>1, <2>2, CheckAlike DEF Operating
  <2> HIDE DEF d
  <2>4. Alike(d, e) /\ ~d.failed /\ DOMAIN d.rspbuf = 1..RSPLEN
    BY <2>1, <2>3, RespondAlike DEF Alike
  <2> QED
    BY <1>5, <2>2, <2>3, <2>4, ResetsAre DEF Alike, Followed, InStage, d
<1>6. CASE n = 24
  <2>1. PICK b, o : b = Response(<<>>) /\ o = Byte(0) /\ d = [c EXCEPT !.rspbuf = b, !.reading = TRUE, !.token = FALSE, !.out = o]
    BY <1>6, NormalWrite
  <2>2. st = "op" /\ before = "op" /\ DOMAIN b = 1..RSPLEN
    BY <1>6, <2>1 DEF Leads, Response
  <2> HIDE DEF d
  <2>3. d.unset = c.unset /\ d.reset_state = c.reset_state /\ d.altcmd = c.altcmd /\ d.cmdidx = c.cmdidx
        /\ d.reading /\ d.rspbuf = b /\ d.failed = c.failed
    BY <2>1 DEF IsCard
  <2> QED
    BY <1>6, <2>2, <2>3 DEF Followed, InStage, d
<1>7. CASE n = 55
  <2>1. PICK e : e = Respond(c, <<0>>, 2) /\ d = [e EXCEPT !.altcmd = TRUE]
    BY <1>7, NormalApp
  <2>2. (before = "if" /\ st = "ifalt") \/ (before = "op" /\ st = "opalt")
    BY <1>7 DEF Leads
  <2>3. Alike(e, c) /\ e.failed = c.failed /\ DOMAIN e.rspbuf = 1..RSPLEN
    BY <2>1, RespondAlike
  <2> HIDE DEF d
  <2>4. d.unset = e.unset /\ d.reset_state = e.reset_state /\ d.altcmd = TRUE /\ d.cmdidx = e.cmdidx
        /\ d.reading = e.reading /\ d.rspbuf = e.rspbuf /\ d.failed = e.failed
    BY <2>1, <2>3 DEF Alike, IsCard
  <2> QED
    BY <1>7, <2>2, <2>3, <2>4, ResetsAre DEF Alike, Followed, InStage, d
<1>8. CASE n = 58
  <2>2. PICK e : e = Respond(c, Bytes58(c), 4) /\ d = [e EXCEPT !.reset_state = IF @ = "RESET_COMPLETE" THEN "IN_OPERATION" ELSE @]
    BY <1>8, NormalOcr
  <2>3. before = "complete" /\ st = "op" /\ c.reset_state = "RESET_COMPLETE"
    BY <1>8, ResetsAre DEF Leads
  <2>4. Alike(e, c) /\ e.failed = c.failed /\ DOMAIN e.rspbuf = 1..RSPLEN
    BY <2>2, RespondAlike
  <2> HIDE DEF d
  <2>5. d = [e EXCEPT !.reset_state = "IN_OPERATION"]
    BY <2>2, <2>3, <2>4 DEF Alike
  <2>6. d.unset = e.unset /\ d.reset_state = "IN_OPERATION" /\ d.altcmd = e.altcmd /\ d.cmdidx = e.cmdidx
        /\ d.reading = e.reading /\ d.rspbuf = e.rspbuf /\ d.failed = e.failed
    BY <2>4, <2>5, MoveOn DEF Alike
  <2> QED
    BY <1>8, <2>3, <2>4, <2>6, ResetsAre DEF Alike, Followed, InStage, d
<1> QED
  BY <1>0, <1>1, <1>2, <1>3, <1>4, <1>5, <1>6, <1>7, <1>8

\* The answer to ACMD41 is in its place.
Told(d, c) == d.rspidx = c.rspidx /\ d.out = c.out /\ d.rspbuf[1] = Byte(IF d.reset_state = "RESET_COMPLETE" THEN 0 ELSE 1)

\* The two commands after CMD55.
LEMMA AltFollowed ==
    ASSUME NEW c, IsCard(c), ~c.failed, c.altcmd = FALSE, ~c.reading, DOMAIN c.rspbuf = 1..RSPLEN,
           NEW before, NEW st, NEW n, NEW arg, Leads(before, n, arg, st), c.reset_state \in Resets(before),
           before \in {"ifalt", "opalt"}
    PROVE  LET d == AltCommand(c, n, arg) IN
           /\ Followed(d, c, st) /\ ~d.reading /\ n \in {41, 51}
           /\ n = 41 => Told(d, c)
<1> DEFINE d == AltCommand(c, n, arg)
<1>0. n \in {41, 51}
  BY DEF Leads
<1>1. CASE n = 41
  <2> DEFINE h == OnlyHCS(arg) /\ c.reset_state \in {"RCVD_CMD8", "RCVD_ACMD41", "RESET_COMPLETE"}
  <2>1. PICK p, x, r : /\ p = (IF c.powerup = "never" THEN "busy" ELSE c.powerup)
                       /\ x = Byte(IF c.powerup # "done" THEN 1 ELSE 0)
                       /\ r = IF c.powerup # "done" THEN "RCVD_ACMD41" ELSE "RESET_COMPLETE"
    OBVIOUS
  <2>2. PICK e : e = Check(c, h) /\ Alike(e, c) /\ e.rspbuf = c.rspbuf /\ (e.failed <=> c.failed \/ ~h)
    BY CheckAlike
  <2>3. d = [e EXCEPT !.powerup = p, !.rspbuf[1] = x, !.rspdly = 2, !.reset_state = r]
    <3>1. d = [e EXCEPT !.powerup = IF @ = "never" THEN "busy" ELSE @,
                        !.rspbuf[1] = Byte(IF c.powerup # "done" THEN 1 ELSE 0), !.rspdly = 2,
                        !.reset_state = IF c.powerup # "done" THEN "RCVD_ACMD41" ELSE "RESET_COMPLETE"]
      <4>1. AltCommand(c, 41, arg) = [Check(c, h) EXCEPT !.powerup = IF @ = "never" THEN "busy" ELSE @,
                        !.rspbuf[1] = Byte(IF c.powerup # "done" THEN 1 ELSE 0), !.rspdly = 2,
                        !.reset_state = IF c.powerup # "done" THEN "RCVD_ACMD41" ELSE "RESET_COMPLETE"]
        BY DEF AltCommand
      <4> HIDE DEF h
      <4> QED
        BY <1>1, <2>2, <4>1
    <3> HIDE DEF d
    <3> QED
      BY <2>1, <2>2, <3>1 DEF Alike
  <2>4. st = "polled" /\ h
    <3>1. st = "polled" /\ before = "ifalt" /\ arg = HCS
      BY <1>1 DEF Leads
    <3> QED
      BY <3>1, ResetsAre DEF OnlyHCS, HCS
  <2> HIDE DEF d, h
  <2>5. PICK b : b = [c.rspbuf EXCEPT ![1] = x]
    OBVIOUS
  <2>6. d = [e EXCEPT !.powerup = p, !.rspbuf = b, !.rspdly = 2, !.reset_state = r]
    BY <2>2, <2>3, <2>5 DEF Alike, IsCard
  <2>7. d.unset = e.unset /\ d.failed = e.failed /\ d.altcmd = e.altcmd /\ d.cmdidx = e.cmdidx /\ d.reading = e.reading
        /\ d.rspidx = e.rspidx /\ d.out = e.out /\ d.rspbuf = b /\ d.reset_state = r
    BY <2>2, <2>6 DEF Alike, IsCard
  <2>8. DOMAIN b = 1..RSPLEN /\ b[1] = x
    <3>1. 1 \in 1..RSPLEN
      BY CardAssumption
    <3> QED
      BY <2>5, <3>1
  <2>9. r \in Resets("polled") /\ x = Byte(IF r = "RESET_COMPLETE" THEN 0 ELSE 1)
    BY <2>1, ResetsAre
  <2> QED
    BY <1>0, <2>2, <2>4, <2>7, <2>8, <2>9 DEF Alike, Followed, InStage, Told, d
<1>2. CASE n = 51
  <2>1. PICK b, o : b = Block(Scr) /\ o = Byte(0)
    OBVIOUS
  <2>2. d = [c EXCEPT !.blk = b, !.out = o]
    <3>1. AltCommand(c, 51, arg) = [c EXCEPT !.blk = Block(Scr), !.out = Byte(0)]
      BY DEF AltCommand
    <3> QED
      BY <1>2, <2>1, <3>1
  <2>3. st = "op" /\ before = "opalt"
    BY <1>2 DEF Leads
  <2> HIDE DEF d
  <2>4. d.unset = c.unset /\ d.failed = c.failed /\ d.altcmd = c.altcmd /\ d.cmdidx = c.cmdidx /\ d.reading = c.reading
        /\ d.rspbuf = c.rspbuf /\ d.reset_state = c.reset_state
    BY <2>2 DEF IsCard
  <2> QED
    BY <1>0, <1>2, <2>3, <2>4, ResetsAre DEF Followed, InStage, d
<1> QED
  BY <1>0, <1>1, <1>2

\* A command in its turn, looked at by the card.
LEMMA ProcessFollowed ==
    ASSUME NEW k, CardFine(k), ~k.failed, ~k.reading, DOMAIN k.rspbuf = 1..RSPLEN,
           NEW before \in Stages, NEW st, NEW n, NEW arg, Leads(before, n, arg, st), InStage(k, before), k.cmd = Command(n, arg)
    PROVE  LET d == Process(k) IN
           /\ d.unset = k.unset /\ ~d.failed /\ InStage(d, st) /\ d.cmdidx = 7 /\ DOMAIN d.rspbuf = 1..RSPLEN
           /\ d.reading <=> n = 24
           /\ n = 41 => d.rspidx = 0 /\ d.out = Ones /\ d.rspbuf[1] = Byte(IF d.reset_state = "RESET_COMPLETE" THEN 0 ELSE 1)
<1> DEFINE d == Process(k)
<1>1. PICK new : new = [k EXCEPT !.cmdidx = 7, !.rspidx = 0, !.blkdly = 0, !.blk = <<>>, !.altcmd = FALSE, !.out = Ones]
  OBVIOUS
<1>2. /\ IsCard(new) /\ new.cmdidx = 7 /\ new.rspidx = 0 /\ ~new.reading /\ new.out = Ones /\ new.altcmd = FALSE /\ ~new.failed
      /\ new.unset = k.unset /\ new.reset_state = k.reset_state /\ new.rspbuf = k.rspbuf
  BY <1>1 DEF CardFine, IsCard
<1>3. k.cmd.v[1] = n /\ k.cmd.v[2] = arg
  BY DEF Command
<1>4. d = IF k.altcmd THEN AltCommand(new, n, arg) ELSE NormalCommand(new, n, arg)
  BY <1>1, <1>3 DEF Process
<1>5. new.reset_state \in Resets(before) /\ (k.altcmd <=> before \in {"ifalt", "opalt"})
  BY <1>2 DEF InStage
<1>6. CASE k.altcmd
  <2>0. /\ d = AltCommand(new, n, arg) /\ IsCard(new) /\ ~new.failed /\ new.altcmd = FALSE /\ ~new.reading
        /\ DOMAIN new.rspbuf = 1..RSPLEN /\ new.reset_state \in Resets(before) /\ before \in {"ifalt", "opalt"}
    BY <1>2, <1>4, <1>5, <1>6, Zenon
  <2>1. /\ Followed(d, new, st) /\ ~d.reading /\ n \in {41, 51}
        /\ n = 41 => Told(d, new)
    <3> HIDE DEF d
    <3> QED
      BY <2>0, AltFollowed
  <2> HIDE DEF d
  <2>2. n # 24
    BY <2>1
  <2> QED
    BY <1>2, <2>1, <2>2 DEF Followed, Told, d
<1>7. CASE ~k.altcmd
  <2>0. /\ d = NormalCommand(new, n, arg) /\ IsCard(new) /\ ~new.failed /\ new.altcmd = FALSE /\ ~new.reading
        /\ DOMAIN new.rspbuf = 1..RSPLEN /\ new.reset_state \in Resets(before) /\ before \notin {"ifalt", "opalt"}
    BY <1>2, <1>4, <1>5, <1>7, Zenon
  <2>1. Followed(d, new, st) /\ (d.reading <=> n = 24)
    <3> HIDE DEF d
    <3> QED
      BY <2>0, NormalFollowed
  <2>2. n # 41
    BY <1>5, <1>7 DEF Leads
  <2> HIDE DEF d
  <2> QED
    BY <1>2, <2>1, <2>2 DEF Followed, d
<1> QED
  BY <1>6, <1>7

\* Nothing a card gets changes how it started.
LEMMA NormalUnset ==
    ASSUME NEW c, IsCard(c), NEW n, NEW arg
    PROVE  NormalCommand(c, n, arg).unset = c.unset
<1> DEFINE d == NormalCommand(c, n, arg)
<1>0. \A e : IsCard(e) /\ e.unset = c.unset => \A b, y : LET r == Respond(e, b, y) IN IsCard(r) /\ r.unset = c.unset
  BY RespondAlike DEF Alike
<1>1. \A e : IsCard(e) /\ e.unset = c.unset => \A h : LET r == Check(e, h) IN IsCard(r) /\ r.unset = c.unset
  BY CheckAlike DEF Alike
<1>2. \A e : IsCard(e) /\ e.unset = c.unset => \A w : LET r == SendBlock(e, w) IN IsCard(r) /\ r.unset = c.unset
  BY BlockAlike DEF Alike
<1>3. \A e : IsCard(e) /\ e.unset = c.unset => \A s : [e EXCEPT !.reset_state = s].unset = c.unset
  BY DEF IsCard
<1>4. IsCard(Operating(c)) /\ Operating(c).unset = c.unset
  BY <1>1 DEF Operating
<1>5. CASE n = 0
  <2>1. PICK e : e = Respond(c, <<1>>, 4) /\ d = [e EXCEPT !.reset_state = "CMD0_IDLE"]
    BY <1>5, NormalReset
  <2> QED
    BY <1>0, <1>3, <2>1
<1>6. CASE n = 1
  <2>1. PICK e : e = Check(c, OnlyHCS(arg)) /\ d = Respond(e, <<2>>, 4)
    BY <1>6, NormalInit
  <2> HIDE DEF d
  <2> QED
    BY <1>0, <1>1, <2>1 DEF d
<1>7. CASE n = 8
  <2>1. PICK e, f : e = Check(c, Range8(c, arg)) /\ f = Respond(e, Bytes8(arg), 4) /\ d = [f EXCEPT !.reset_state = "RCVD_CMD8"]
    BY <1>7, NormalIf
  <2>2. IsCard(e) /\ e.unset = c.unset
    BY <1>1, <2>1
  <2>3. IsCard(f) /\ f.unset = c.unset
    BY <1>0, <2>1, <2>2
  <2> QED
    BY <1>3, <2>1, <2>3
<1>8. CASE n \in {9, 10}
  <2>1. PICK w : d = SendBlock(Operating(c), w)
    BY <1>8, NormalRead
  <2> HIDE DEF d
  <2> QED
    BY <1>2, <1>4, <2>1 DEF d
<1>9. CASE n = 17
  <2>1. PICK e, w : e = Check(Operating(c), arg < NSECTORS) /\ d = SendBlock(e, w)
    BY <1>9, NormalRead
  <2>2. IsCard(e) /\ e.unset = c.unset
    BY <1>1, <1>4, <2>1
  <2> HIDE DEF d
  <2> QED
    BY <1>2, <2>1, <2>2 DEF d
<1>10. CASE n = 13
  <2>1. d = Respond(Operating(c), <<0, 0>>, 4)
    BY <1>10, NormalStatus
  <2> HIDE DEF d
  <2> QED
    BY <1>0, <1>4, <2>1 DEF d
<1>11. CASE n = 24
  <2>1. PICK b, o : d = [c EXCEPT !.rspbuf = b, !.reading = TRUE, !.token = FALSE, !.out = o]
    BY <1>11, NormalWrite
  <2> HIDE DEF d
  <2> QED
    BY <2>1 DEF IsCard, d
<1>12. CASE n = 55
  <2>1. PICK e : e = Respond(c, <<0>>, 2) /\ d = [e EXCEPT !.altcmd = TRUE]
    BY <1>12, NormalApp
  <2>2. IsCard(e) /\ e.unset = c.unset
    BY <1>0, <2>1
  <2> HIDE DEF d
  <2> QED
    BY <2>1, <2>2 DEF IsCard, d
<1>13. CASE n = 58
  <2>1. PICK e, r : e = Respond(c, Bytes58(c), 4) /\ d = [e EXCEPT !.reset_state = r]
    <3>1. PICK e : e = Respond(c, Bytes58(c), 4) /\ d = [e EXCEPT !.reset_state = IF @ = "RESET_COMPLETE" THEN "IN_OPERATION" ELSE @]
      BY <1>13, NormalOcr
    <3> QED
      BY <3>1
  <2>2. IsCard(e) /\ e.unset = c.unset
    BY <1>0, <2>1
  <2> HIDE DEF d
  <2> QED
    BY <1>3, <2>1, <2>2 DEF d
<1>14. CASE n \notin {0, 1, 8, 9, 10, 13, 17, 24, 55, 58}
  <2>1. PICK e : e = Check(c, FALSE) /\ d = Respond(e, <<4>>, 4)
    BY <1>14, NormalOther
  <2>2. IsCard(e) /\ e.unset = c.unset
    BY <1>1, <2>1
  <2>3. PICK b, y : d = Respond(e, b, y)
    BY <2>1
  <2> HIDE DEF d
  <2> QED
    BY <1>0, <2>2, <2>3 DEF d
<1> QED
  BY <1>5, <1>6, <1>7, <1>8, <1>9, <1>10, <1>11, <1>12, <1>13, <1>14

\* The same for an application's command.
LEMMA AltUnset ==
    ASSUME NEW c, IsCard(c), NEW n, NEW arg
    PROVE  AltCommand(c, n, arg).unset = c.unset
<1> DEFINE d == AltCommand(c, n, arg)
<1>1. \A h : LET r == Check(c, h) IN IsCard(r) /\ r.unset = c.unset
  BY CheckAlike DEF Alike
<1>2. CASE n = 41
  <2>1. PICK h, e, p, b, s : e = Check(c, h) /\ d = [e EXCEPT !.powerup = p, !.rspbuf[1] = b, !.rspdly = 2, !.reset_state = s]
    <3>1. PICK h : h = (OnlyHCS(arg) /\ c.reset_state \in {"RCVD_CMD8", "RCVD_ACMD41", "RESET_COMPLETE"})
      BY Zenon
    <3>2. PICK e : e = Check(c, h)
      OBVIOUS
    <3>3. d = [e EXCEPT !.powerup = IF @ = "never" THEN "busy" ELSE @,
                        !.rspbuf[1] = Byte(IF c.powerup # "done" THEN 1 ELSE 0), !.rspdly = 2,
                        !.reset_state = IF c.powerup # "done" THEN "RCVD_ACMD41" ELSE "RESET_COMPLETE"]
      BY <1>2, <3>1, <3>2 DEF AltCommand
    <3> HIDE DEF d
    <3> QED
      BY <3>2, <3>3
  <2>2. IsCard(e) /\ e.unset = c.unset
    BY <1>1, <2>1
  <2> HIDE DEF d
  <2> QED
    BY <2>1, <2>2 DEF IsCard, d
<1>3. CASE n = 51
  <2>1. PICK b, o : d = [c EXCEPT !.blk = b, !.out = o]
    <3>1. AltCommand(c, 51, arg) = [c EXCEPT !.blk = Block(Scr), !.out = Byte(0)]
      BY DEF AltCommand
    <3> QED
      BY <1>3, <3>1
  <2> HIDE DEF d
  <2> QED
    BY <2>1 DEF IsCard, d
<1>4. CASE n \notin {41, 51}
  <2>1. PICK e : e = Check(c, FALSE) /\ d = [e EXCEPT !.rspbuf[1] = Byte(4), !.rspdly = 4]
    BY <1>4 DEF AltCommand
  <2>2. IsCard(e) /\ e.unset = c.unset
    BY <1>1, <2>1
  <2> HIDE DEF d
  <2> QED
    BY <2>1, <2>2 DEF IsCard, d
<1> QED
  BY <1>2, <1>3, <1>4

\* A byte of a block, or one the card does not wait for.
LEMMA DataKeeps ==
    ASSUME NEW k, CardFine(k), k.reading, NEW u
    PROVE  LET m == Receive(k, u) IN
           /\ m.unset = k.unset /\ m.reset_state = k.reset_state /\ m.altcmd = k.altcmd /\ m.rspbuf = k.rspbuf
           /\ ~k.token \/ Len(k.rx) < BLKWORDS => m.failed = k.failed
           /\ \A f : k.token /\ k.rx = [i \in 1..BLKWORDS |-> Word(f[i])] /\ u = CRC([i \in 1..BLKWORDS |-> f[i]]) =>
                  m.failed = k.failed
<1> DEFINE m == Receive(k, u)
<1>1. m = ReceiveData(k, u)
  BY DEF Receive
<1>2. IsCard(k) /\ k.token \in BOOLEAN /\ k.failed \in BOOLEAN
  BY DEF CardFine
<1> HIDE DEF m
<1>3. CASE ~k.token
  <2>1. PICK t, s, o : m = [k EXCEPT !.token = t, !.rx = s, !.out = o]
    BY <1>1, <1>3 DEF ReceiveData
  <2> QED
    BY <1>2, <1>3, <2>1 DEF IsCard, m
<1>4. CASE k.token /\ Len(k.rx) < BLKWORDS
  <2>1. PICK s, o : m = [k EXCEPT !.rx = s, !.out = o]
    BY <1>1, <1>2, <1>4 DEF ReceiveData, IsCard
  <2>2. /\ m.unset = k.unset /\ m.reset_state = k.reset_state /\ m.altcmd = k.altcmd /\ m.rspbuf = k.rspbuf
        /\ m.failed = k.failed
    BY <1>2, <2>1 DEF IsCard
  <2> QED
    BY <2>2 DEF m
<1>5. CASE k.token /\ ~(Len(k.rx) < BLKWORDS)
  <2>1. PICK rx, ws : rx = k.rx /\ ws = [i \in DOMAIN rx |-> rx[i].v[1]]
    OBVIOUS
  <2>2. PICK e : e = Check(k, u = CRC(ws))
    OBVIOUS
  <2>8. Alike(e, k) /\ e.rspbuf = k.rspbuf /\ (e.failed <=> k.failed \/ ~(u = CRC(ws)))
    BY <1>2, <2>2, CheckAlike
  <2>3. IsCard(e) /\ e.unset = k.unset /\ e.reset_state = k.reset_state /\ e.altcmd = k.altcmd /\ e.rspbuf = k.rspbuf
        /\ (e.failed <=> k.failed \/ ~(u = CRC(ws)))
    BY <2>8 DEF Alike
  <2>4. e.failed \in BOOLEAN
    BY <2>2, CheckFine
  <2>5. PICK acc, o : m = [e EXCEPT !.reading = FALSE, !.token = FALSE, !.accepted = acc, !.out = o]
    BY <1>1, <1>5, <2>1, <2>2 DEF ReceiveData
  <2>6. m.unset = e.unset /\ m.reset_state = e.reset_state /\ m.altcmd = e.altcmd /\ m.rspbuf = e.rspbuf /\ m.failed = e.failed
    BY <2>3, <2>5 DEF IsCard
  <2>7. ASSUME NEW f, k.rx = [i \in 1..BLKWORDS |-> Word(f[i])], u = CRC([i \in 1..BLKWORDS |-> f[i]])
        PROVE  m.failed = k.failed
    <3>1. DOMAIN rx = 1..BLKWORDS /\ \A i \in 1..BLKWORDS : rx[i] = Word(f[i])
      BY <2>1, <2>7
    <3>2. \A x : Word(x).v[1] = x
      BY DEF Word
    <3>3. ws = [i \in 1..BLKWORDS |-> f[i]]
      BY <2>1, <3>1, <3>2
    <3>4. u = CRC(ws)
      BY <2>7, <3>3
    <3> QED
      BY <1>2, <2>3, <2>4, <2>6, <3>4
  <2> QED
    BY <1>5, <2>3, <2>6, <2>7 DEF m
<1> QED
  BY <1>2, <1>3, <1>4, <1>5

\* A selected card takes its command without complaint.
LEMMA CommandTaken ==
    ASSUME NEW k, CardFine(k), ~k.reading, k.cmdidx = 0, NEW u
    PROVE  LET m == Receive(k, u) IN
           /\ m.unset = k.unset /\ m.reset_state = k.reset_state /\ m.altcmd = k.altcmd /\ m.rspbuf = k.rspbuf
           /\ u.k = "cmd" /\ ~k.failed => ~m.failed
<1> DEFINE m == Receive(k, u)
<1>1. PICK e : e = Check(k, u.k = "cmd")
  OBVIOUS
<1>2. IsCard(e) /\ e.unset = k.unset /\ e.reset_state = k.reset_state /\ e.altcmd = k.altcmd /\ e.rspbuf = k.rspbuf
      /\ (e.failed <=> k.failed \/ ~(u.k = "cmd"))
  <2>1. IsCard(k)
    BY DEF CardFine
  <2>2. Alike(e, k) /\ e.rspbuf = k.rspbuf /\ (e.failed <=> k.failed \/ ~(u.k = "cmd"))
    BY <1>1, <2>1, CheckAlike
  <2> QED
    BY <2>2 DEF Alike
<1>3. PICK o : m = [e EXCEPT !.cmd = u, !.cmdidx = 6, !.out = o]
  <2>1. m = [e EXCEPT !.cmd = u, !.cmdidx = 6, !.out = Ones]
    BY <1>1 DEF Receive
  <2> QED
    BY <2>1
<1> HIDE DEF m
<1>4. m.unset = e.unset /\ m.reset_state = e.reset_state /\ m.altcmd = e.altcmd /\ m.rspbuf = e.rspbuf /\ m.failed = e.failed
  BY <1>2, <1>3 DEF IsCard
<1> QED
  BY <1>2, <1>4 DEF m

\* A card that answers, to a master that listens, complains of nothing.
LEMMA AnswerQuiet ==
    ASSUME NEW k, CardFine(k), ~k.reading, k.cmdidx = 7, NEW u
    PROVE  LET m == Receive(k, u) IN
           /\ m.unset = k.unset /\ m.reset_state = k.reset_state /\ m.altcmd = k.altcmd
           /\ u = Ones /\ ~k.failed => ~m.failed
<1> DEFINE m == Receive(k, u)
<1>1. PICK b : b = [k EXCEPT !.out = Ones]
  OBVIOUS
<1>2. IsCard(b) /\ b.unset = k.unset /\ b.reset_state = k.reset_state /\ b.altcmd = k.altcmd /\ b.failed = k.failed
  BY <1>1 DEF CardFine, IsCard
<1>3. PICK q : q = Check(b, u = Ones)
  OBVIOUS
<1>4. IsCard(q) /\ q.unset = k.unset /\ q.reset_state = k.reset_state /\ q.altcmd = k.altcmd /\ (q.failed <=> k.failed \/ ~(u = Ones))
  <2>1. Alike(q, b) /\ (q.failed <=> b.failed \/ ~(u = Ones))
    BY <1>2, <1>3, CheckAlike
  <2> QED
    BY <1>2, <2>1 DEF Alike
<1>5. m = Answer(k, u)
  BY DEF Receive, CardFine
<1>6. \/ m = q
      \/ \E x : m = [q EXCEPT !.rspdly = x]
      \/ \E x, y : m = [q EXCEPT !.out = x, !.rspidx = y]
      \/ \E x : m = [q EXCEPT !.blkdly = x]
      \/ \E x, y : m = [q EXCEPT !.out = x, !.blk = y]
  <2>1. m = CASE k.rspdly > 0      -> [q EXCEPT !.rspdly = @ - 1]
              [] k.rspdly = 0 /\ k.rspidx < RSPLEN -> [q EXCEPT !.out = k.rspbuf[k.rspidx + 1], !.rspidx = @ + 1]
              [] k.rspdly = 0 /\ k.rspidx = RSPLEN /\ k.blkdly > 0 -> [q EXCEPT !.blkdly = @ - 1]
              [] OTHER -> IF k.blk # <<>> THEN [q EXCEPT !.out = Head(k.blk), !.blk = Tail(@)] ELSE q
    BY <1>1, <1>3, <1>5 DEF Answer
  <2> HIDE DEF m
  <2>2. CASE k.rspdly > 0
    <3>1. m = [q EXCEPT !.rspdly = @ - 1]
      BY <2>1, <2>2
    <3> QED
      BY <3>1
  <2>3. CASE ~(k.rspdly > 0) /\ k.rspdly = 0 /\ k.rspidx < RSPLEN
    <3>1. PICK x, y : x = k.rspbuf[k.rspidx + 1] /\ y = q.rspidx + 1
      OBVIOUS
    <3>2. m = [q EXCEPT !.out = x, !.rspidx = y]
      <4>1. m = [q EXCEPT !.out = k.rspbuf[k.rspidx + 1], !.rspidx = @ + 1]
        <5>1. k.rspidx # RSPLEN
          BY <2>3, CardAssumption
        <5> QED
          BY <2>1, <2>3, <5>1
      <4> QED
        BY <1>4, <3>1, <4>1 DEF IsCard
    <3> QED
      BY <3>2
  <2>4. CASE ~(k.rspdly > 0) /\ ~(k.rspdly = 0 /\ k.rspidx < RSPLEN)
    <3>1. \/ m = [q EXCEPT !.blkdly = @ - 1]
          \/ m = [q EXCEPT !.out = Head(k.blk), !.blk = Tail(@)]
          \/ m = q
      BY <2>1, <2>4
    <3> QED
      BY <3>1
  <2> QED
    BY <2>2, <2>3, <2>4 DEF CardFine
<1> HIDE DEF m
<1>7. m.unset = q.unset /\ m.reset_state = q.reset_state /\ m.altcmd = q.altcmd /\ m.failed = q.failed
  BY <1>4, <1>6 DEF IsCard
<1> QED
  BY <1>4, <1>7 DEF m

\* Whatever the card gets.
LEMMA ReceiveUnset ==
    ASSUME NEW k, CardFine(k), k.cmdidx \in {0, 6, 7}, NEW u
    PROVE  Receive(k, u).unset = k.unset
<1>0. k.reading \in BOOLEAN /\ IsCard(k)
  BY DEF CardFine
<1>1. CASE k.reading
  BY <1>1, DataKeeps
<1>2. CASE ~k.reading /\ k.cmdidx = 0
  BY <1>2, CommandTaken
<1>3. CASE ~k.reading /\ k.cmdidx = 6
  <2>1. PICK new : new = [k EXCEPT !.cmdidx = 7, !.rspidx = 0, !.blkdly = 0, !.blk = <<>>, !.altcmd = FALSE, !.out = Ones]
    OBVIOUS
  <2>2. IsCard(new) /\ new.unset = k.unset
    BY <1>0, <2>1 DEF IsCard
  <2>3. PICK n, arg : Receive(k, u) = IF k.altcmd THEN AltCommand(new, n, arg) ELSE NormalCommand(new, n, arg)
    BY <1>3, <2>1 DEF Receive, Process
  <2> QED
    BY <2>2, <2>3, AltUnset, NormalUnset
<1>4. CASE ~k.reading /\ k.cmdidx = 7
  BY <1>4, AnswerQuiet
<1> QED
  BY <1>0, <1>1, <1>2, <1>3, <1>4

\* The rise of chip select moves the card nowhere.
LEMMA DeselectKeeps ==
    ASSUME NEW k, IsCard(k)
    PROVE  LET m == Deselect(k) IN
           /\ m.unset = k.unset /\ m.failed = k.failed /\ m.reset_state = k.reset_state /\ m.altcmd = k.altcmd
           /\ m.reading = k.reading /\ m.rspbuf = k.rspbuf
BY DEF Deselect, IsCard

--------------------------------------------------------------------------------
(* What the controller keeps, unit by unit. *)

\* What a transfer keeps of its command.
SameCommand(d, c) == d.n = c.n /\ d.arg = c.arg /\ d.wr = c.wr /\ d.left = c.left /\ d.lgblklen = c.lgblklen

\* What the labels tell two controllers apart by.
SameCtl(d, c) ==
    /\ SameCommand(d, c) /\ d.busy = c.busy /\ d.phase = c.phase /\ d.data = c.data /\ d.r1 = c.r1 /\ d.err = c.err
    /\ d.usefifo = c.usefifo /\ d.rsp = c.rsp

\* Controllers it cannot tell apart are labelled the same.
LEMMA LabelledSame ==
    ASSUME NEW k, NEW c, NEW d, NEW a, SameCtl(d, c), Labelled(k, c, a)
    PROVE  Labelled(k, d, a)
<1>1. \A st : Unseen(k, c, st) => Unseen(k, d, st)
  BY DEF Unseen, SameCtl, SameCommand
<1>2. \A st : Seen(k, c, st) => Seen(k, d, st)
  BY DEF Seen, Polling, SameCtl, SameCommand
<1>3. \A st : InProgress(k, c, st) => InProgress(k, d, st)
  BY <1>1, <1>2 DEF InProgress, SameCtl, SameCommand
<1>4. \A st : AtRest(k, c, st) => AtRest(k, d, st)
  BY DEF AtRest, SameCtl
<1> QED
  BY <1>3, <1>4 DEF Labelled, SameCtl, SameCommand

\* The accesses to the FIFOs.
LEMMA FifoSame ==
    ASSUME NEW c, IsCtl(c)
    PROVE  SameCtl(ReadFifo(c), c) /\ \A id, w : SameCtl(WriteFifo(c, id, w), c)
<1>1. SameCtl(ReadFifo(c), c)
  <2>1. PICK p : ReadFifo(c) = [c EXCEPT !.ptr = p]
    BY DEF ReadFifo, IsCtl
  <2>2. PICK d : d = ReadFifo(c)
    OBVIOUS
  <2>3. d = [c EXCEPT !.ptr = p]
    BY <2>1, <2>2
  <2>4. SameCtl(d, c)
    BY <2>3 DEF SameCtl, SameCommand, IsCtl
  <2> QED
    BY <2>2, <2>4
<1>2. ASSUME NEW id, NEW w PROVE SameCtl(WriteFifo(c, id, w), c)
  <2>1. PICK p, f : WriteFifo(c, id, w) = [c EXCEPT !.ptr = p, !.fifo = f]
    <3>1. PICK x : x = IF c.busy /\ c.usefifo /\ ~c.wr /\ c.id = id THEN c.fifo[id] ELSE [c.fifo[id] EXCEPT ![c.ptr + 1] = w]
      OBVIOUS
    <3>2. PICK p, f : p = (c.ptr + 1) % BLKWORDS /\ f = [c.fifo EXCEPT ![id] = x]
      OBVIOUS
    <3>3. WriteFifo(c, id, w) = [c EXCEPT !.ptr = p, !.fifo = f]
      BY <3>1, <3>2 DEF WriteFifo, IsCtl
    <3> QED
      BY <3>3
  <2>2. PICK d : d = WriteFifo(c, id, w)
    OBVIOUS
  <2>3. d = [c EXCEPT !.ptr = p, !.fifo = f]
    BY <2>1, <2>2
  <2>4. SameCtl(d, c)
    BY <2>3 DEF SameCtl, SameCommand, IsCtl
  <2> QED
    BY <2>2, <2>4
<1> QED
  BY <1>1, <1>2

\* A write of the data register.
LEMMA DataSets ==
    ASSUME NEW c, IsCtl(c), ~c.busy, NEW v
    PROVE  LET d == WriteData(c, v) IN ~d.busy /\ d.data.v = v /\ d.r1 = c.r1 /\ d.lgblklen = c.lgblklen
<1>1. PICK data, d : data = [from |-> "bus", v |-> v] /\ d = [c EXCEPT !.data = data]
  OBVIOUS
<1>2. WriteData(c, v) = d
  BY <1>1 DEF WriteData
<1>3. d.busy = c.busy /\ d.data = data /\ d.r1 = c.r1 /\ d.lgblklen = c.lgblklen
  BY <1>1 DEF IsCtl
<1> QED
  BY <1>1, <1>2, <1>3

\* The error bit after an access has a value.
LEMMA ErrIs == \A c, w : \E err : err = (c.err /\ ~w.clr)
BY Zenon

\* An access of the auxiliary register, with a small number: the length of a block stays.
LEMMA AuxSets ==
    ASSUME NEW c, IsCtl(c), ~c.busy, NEW w, w.n \in {191, 255}, w.n = 255 => c.data.v \in Small
    PROVE  LET d == WriteCtrl(c, w) IN ~d.busy /\ d.data.v = 0 /\ d.r1 = c.r1 /\ d.lgblklen = c.lgblklen
<1>0. PICK err : err = (c.err /\ ~w.clr)
  BY ErrIs
<1> DEFINE s == [c EXCEPT !.ptr = 0]
           id == w.id
           aux == [from |-> "aux", v |-> 0]
<1>1. s = [c EXCEPT !.ptr = 0] /\ id = w.id /\ aux = [from |-> "aux", v |-> 0]
  BY Zenon
<1> HIDE DEF s, id, aux
<1>2. PICK new : new = [s EXCEPT !.id = id, !.err = err]
  OBVIOUS
<1>3. IsCtl(s) /\ s.busy = c.busy /\ s.r1 = c.r1 /\ s.lgblklen = c.lgblklen /\ s.err = c.err
  BY <1>1 DEF IsCtl
<1>4. IsCtl(new) /\ new.busy = c.busy /\ new.r1 = c.r1 /\ new.lgblklen = c.lgblklen
  BY <1>2, <1>3 DEF IsCtl
<1>5. new = [[c EXCEPT !.ptr = 0] EXCEPT !.id = w.id, !.err = @ /\ ~w.clr]
  BY <1>0, <1>1, <1>2, <1>3
<1>6. PICK d : d = WriteCtrl(c, w)
  OBVIOUS
<1>7. CASE w.n = 191
  <2>1. d = [new EXCEPT !.data = aux]
    BY <1>1, <1>5, <1>6, <1>7 DEF WriteCtrl
  <2>2. d.busy = c.busy /\ d.data = aux /\ d.r1 = c.r1 /\ d.lgblklen = c.lgblklen
    BY <1>4, <2>1 DEF IsCtl
  <2> QED
    BY <1>1, <1>6, <2>2
<1>8. CASE w.n = 255
  <2>1. PICK lg : lg = (c.data.v \div 2^16) % 16
    OBVIOUS
  <2>2. d = [new EXCEPT !.data = aux, !.lgblklen = IF lg \in 3..9 THEN lg ELSE @]
    BY <1>1, <1>5, <1>6, <1>8, <2>1 DEF WriteCtrl
  <2>3. lg \notin 3..9
    <3>1. 2^16 = 65536
      OBVIOUS
    <3>2. c.data.v \div 65536 = 0
      BY <1>8, <3>1 DEF Small
    <3>3. lg = 0
      BY <2>1, <3>1, <3>2
    <3> QED
      BY <3>3
  <2>4. PICK l : l = new.lgblklen /\ d = [new EXCEPT !.data = aux, !.lgblklen = l]
    BY <1>4, <2>2, <2>3
  <2>5. d.busy = c.busy /\ d.data = aux /\ d.r1 = c.r1 /\ d.lgblklen = c.lgblklen
    BY <1>4, <2>4 DEF IsCtl
  <2> QED
    BY <1>1, <1>6, <2>5
<1> QED
  BY <1>7, <1>8

\* The start of a command.
LEMMA CommandSets ==
    ASSUME NEW c, IsCtl(c), ~c.busy, NEW w, w.n \notin {191, 255}
    PROVE  LET d == WriteCtrl(c, w) IN
           /\ d.busy /\ d.phase = "send" /\ d.n = w.n /\ d.arg = c.data.v /\ d.wr = w.wr /\ d.left = (IF w.reg THEN 5 ELSE 1)
           /\ d.usefifo = w.fifo /\ d.rsp = <<>> /\ (d.err <=> c.err /\ ~w.clr) /\ d.lgblklen = c.lgblklen
<1>1. PICK s, err, id : s = [c EXCEPT !.ptr = 0] /\ err = (c.err /\ ~w.clr) /\ id = w.id
  BY Zenon
<1>2. PICK new : new = [s EXCEPT !.id = id, !.err = err]
  OBVIOUS
<1>3. IsCtl(s) /\ s.data = c.data /\ s.lgblklen = c.lgblklen /\ s.err = c.err
  BY <1>1 DEF IsCtl
<1>4. IsCtl(new) /\ new.data = c.data /\ new.lgblklen = c.lgblklen /\ new.err = err
  <2>1. new = [s EXCEPT !.id = id, !.err = err]
    BY <1>2, Zenon
  <2>2. IsCtl(new) /\ new.data = s.data /\ new.lgblklen = s.lgblklen
    BY <1>3, <2>1, ZenonT(200) DEF IsCtl
  <2>3. new.err = err
    BY <1>3, <2>1 DEF IsCtl
  <2> QED
    BY <1>3, <2>2, <2>3, Zenon
<1>5. new = [[c EXCEPT !.ptr = 0] EXCEPT !.id = w.id, !.err = @ /\ ~w.clr]
  BY <1>1, <1>2, <1>3
<1>6. PICK d : d = WriteCtrl(c, w)
  OBVIOUS
<1>7. d = StartCommand(new, w)
  BY <1>5, <1>6 DEF WriteCtrl
<1>8. PICK yes, uf, wr, n, arg, left, rsp :
          /\ yes = TRUE /\ uf = w.fifo /\ wr = w.wr /\ n = w.n /\ arg = c.data.v /\ left = (IF w.reg THEN 5 ELSE 1) /\ rsp = <<>>
  OBVIOUS
<1>9. Starts(new, yes, uf, wr, n, arg, left, rsp, d)
  BY <1>4, <1>7, <1>8 DEF StartCommand, Starts
<1>10. d.busy = yes /\ d.phase = "send" /\ d.usefifo = uf /\ d.wr = wr /\ d.n = n /\ d.left = left /\ d.rsp = rsp
  BY <1>4, <1>9, StartSets
<1>11. d.arg = arg /\ d.err = err /\ d.lgblklen = c.lgblklen
  BY <1>4, <1>9 DEF Starts, IsCtl
<1>12. d.err <=> c.err /\ ~w.clr
  BY <1>1, <1>11, Zenon
<1>13. /\ d.busy /\ d.phase = "send" /\ d.n = w.n /\ d.arg = c.data.v /\ d.wr = w.wr /\ d.left = (IF w.reg THEN 5 ELSE 1)
       /\ d.usefifo = w.fifo /\ d.rsp = <<>> /\ d.lgblklen = c.lgblklen
  BY <1>8, <1>10, <1>11
<1> QED
  BY <1>6, <1>12, <1>13, Zenon

\* A unit of a transfer changes none of this.
Mid(e, c) == IsCtl(e) /\ SameCommand(e, c) /\ e.usefifo = c.usefifo /\ e.busy = c.busy

\* What it means for a label.
LEMMA MidIs ==
    ASSUME NEW c, IsCtl(c), NEW e, NEW ph, NEW data, NEW addr, NEW f,
           \/ e = c
           \/ e = [c EXCEPT !.phase = ph]
           \/ e = [c EXCEPT !.phase = ph, !.data = data]
           \/ e = [c EXCEPT !.addr = addr, !.phase = ph]
           \/ e = [c EXCEPT !.fifo = f, !.addr = addr, !.phase = ph]
    PROVE  Mid(e, c)
BY DEF IsCtl, Mid, SameCommand

\* What the controller does with a unit it hears is of that kind.
LEMMA TookKeeps ==
    ASSUME NEW c, CtlFine(c), c.busy, NEW u
    PROVE  LET d == Settle(Took(c, u)) IN
           /\ SameCommand(d, c) /\ (d.busy => d.usefifo = c.usefifo)
           /\ c.phase = "send" => d.err = c.err
           /\ ~c.wr /\ c.phase \in {"answer"} \union RxPhases => d.phase \in {"answer", "off"} \union RxPhases
<1> DEFINE e == Took(c, u)
           d == Settle(e)
           Good == Mid(e, c) /\ (c.phase = "send" => e.err = c.err)
                   /\ (~c.wr /\ c.phase \in {"answer"} \union RxPhases => e.phase \in {"answer", "off"} \union RxPhases)
<1>0. IsCtl(c)
  BY DEF CtlFine
<1>1. ASSUME c.phase = "send" PROVE Good
  <2>1. e = [c EXCEPT !.phase = "answer"]
    BY <1>1 DEF Took
  <2> HIDE DEF e
  <2>2. Mid(e, c)
    BY <1>0, <2>1, MidIs
  <2>3. e.err = c.err
    BY <1>0, <2>1 DEF IsCtl
  <2> QED
    BY <1>1, <2>2, <2>3 DEF RxPhases
<1>2. ASSUME c.phase = "answer" PROVE Good
  <2>0. e = ReceiveR(c, u)
    BY <1>2 DEF Took
  <2>1. PICK r, err : r = Append(c.rsp, Byt(u)) /\ err = (c.err \/ (r[1] % 128) \div 2 # 0)
    BY Zenon
  <2>2. PICK data, r1, ph, a : data = [from |-> "cmd", v |-> IF c.left = 1 THEN 255 ELSE r[5]] /\ r1 = r[1]
            /\ ph = (IF ~c.usefifo \/ err THEN "off" ELSE IF c.wr THEN "txtoken" ELSE "rxtoken") /\ a = 0
    BY ZenonT(60)
  <2>3. \/ e = c
        \/ e = [c EXCEPT !.rsp = r]
        \/ e = [c EXCEPT !.rsp = r, !.r1 = r1, !.err = err, !.addr = a, !.data = data, !.phase = ph]
    BY <2>0, <2>1, <2>2 DEF ReceiveR
  <2> HIDE DEF e
  <2>4. Mid(e, c)
    <3>1. CASE e = c
      BY <1>0, <3>1, MidIs
    <3>2. CASE e = [c EXCEPT !.rsp = r]
      BY <1>0, <3>2 DEF IsCtl, Mid, SameCommand
    <3>3. CASE e = [c EXCEPT !.rsp = r, !.r1 = r1, !.err = err, !.addr = a, !.data = data, !.phase = ph]
      BY <1>0, <3>3 DEF IsCtl, Mid, SameCommand
    <3> QED
      BY <2>3, <3>1, <3>2, <3>3
  <2>5. e.phase \in {"answer", ph}
    BY <1>0, <1>2, <2>3 DEF IsCtl
  <2>6. ~c.wr => ph \in {"off", "rxtoken"}
    BY <2>2
  <2> QED
    BY <1>2, <2>4, <2>5, <2>6 DEF RxPhases
<1>3. ASSUME c.phase = "rxtoken" PROVE Good
  <2>1. PICK data, err : e = c \/ e = [c EXCEPT !.phase = "rxdata"] \/ e = [c EXCEPT !.phase = "off", !.data = data, !.err = err]
    <3>1. \/ e = [c EXCEPT !.phase = "off", !.data = [from |-> "rx", v |-> Byt(u)], !.err = @ \/ Bit(Byt(u), 3)]
          \/ e = [c EXCEPT !.phase = "rxdata"]
          \/ e = c
      <4>1. e = RxToken(c, u)
        BY <1>3 DEF Took
      <4> HIDE DEF e
      <4>2. PICK bad, go : /\ bad = [c EXCEPT !.phase = "off", !.data = [from |-> "rx", v |-> Byt(u)], !.err = @ \/ Bit(Byt(u), 3)]
                           /\ go = [c EXCEPT !.phase = "rxdata"]
        OBVIOUS
      <4>3. e = CASE Byt(u) < 16 -> bad [] Byt(u) >= 16 /\ ~Bit(Byt(u), 0) -> go [] OTHER -> c
        BY <4>1, <4>2 DEF RxToken
      <4>4. e = bad \/ e = go \/ e = c
        BY <4>3
      <4> QED
        BY <4>2, <4>4
    <3> HIDE DEF e
    <3>2. PICK data : data = [from |-> "rx", v |-> Byt(u)]
      OBVIOUS
    <3>3. PICK err : err = (c.err \/ Bit(Byt(u), 3))
      BY Zenon
    <3>4. [c EXCEPT !.phase = "off", !.data = [from |-> "rx", v |-> Byt(u)], !.err = @ \/ Bit(Byt(u), 3)]
              = [c EXCEPT !.phase = "off", !.data = data, !.err = err]
      BY <1>0, <3>2, <3>3 DEF IsCtl
    <3> QED
      BY <3>1, <3>4
  <2> HIDE DEF e
  <2>2. Mid(e, c)
    <3>1. CASE e = c
      BY <1>0, <3>1, MidIs
    <3>2. CASE e = [c EXCEPT !.phase = "rxdata"]
      BY <1>0, <3>2, MidIs
    <3>3. CASE e = [c EXCEPT !.phase = "off", !.data = data, !.err = err]
      BY <1>0, <3>3 DEF IsCtl, Mid, SameCommand
    <3> QED
      BY <2>1, <3>1, <3>2, <3>3
  <2>3. e.phase \in {"rxtoken", "rxdata", "off"}
    BY <1>0, <1>3, <2>1 DEF IsCtl
  <2> QED
    BY <1>3, <2>2, <2>3 DEF RxPhases
<1>4. ASSUME c.phase = "rxdata" PROVE Good
  <2>1. PICK ph, x, a : ph = (IF c.addr + 1 = BlkLen(c) THEN "rxcrc" ELSE c.phase) /\ x = WordOf(u) /\ a = c.addr + 1
    OBVIOUS
  <2>2. PICK f : f = [c.fifo EXCEPT ![c.id][a] = x]
    OBVIOUS
  <2>3. e = [c EXCEPT !.fifo = f, !.addr = a, !.phase = ph]
    BY <1>0, <1>4, <2>1, <2>2 DEF Took, RxData, IsCtl
  <2> HIDE DEF e
  <2>4. Mid(e, c)
    BY <1>0, <2>3, MidIs
  <2>5. e.phase = ph
    BY <1>0, <2>3 DEF IsCtl
  <2> QED
    BY <1>4, <2>1, <2>4, <2>5 DEF RxPhases
<1>5. ASSUME c.phase = "rxcrc" PROVE Good
  <2>1. PICK data : e = [c EXCEPT !.phase = "off", !.data = data]
    BY <1>5 DEF Took, RxCrc
  <2> HIDE DEF e
  <2>2. Mid(e, c)
    BY <1>0, <2>1, MidIs
  <2>3. e.phase = "off"
    BY <1>0, <2>1 DEF IsCtl
  <2> QED
    BY <1>5, <2>2, <2>3
<1>6. ASSUME c.phase \in TxPhases PROVE Good
  <2>0. c.phase \in {"txtoken", "txdata", "txcrc", "txanswer", "txbusy", "txidle"}
    BY <1>6 DEF TxPhases
  <2>1. \/ e = c
        \/ \E ph : e = [c EXCEPT !.phase = ph]
        \/ \E ph, data : e = [c EXCEPT !.phase = ph, !.data = data]
        \/ \E ph, a : e = [c EXCEPT !.addr = a, !.phase = ph]
    <3>1. CASE c.phase = "txtoken"
      BY <3>1 DEF Took
    <3>2. CASE c.phase = "txdata"
      <4>1. PICK ph, a : ph = (IF c.addr + 1 = BlkLen(c) THEN "txcrc" ELSE c.phase) /\ a = c.addr + 1
        OBVIOUS
      <4>2. e = [c EXCEPT !.addr = a, !.phase = ph]
        BY <1>0, <3>2, <4>1 DEF Took, TxData, IsCtl
      <4> QED
        BY <4>2
    <3>3. CASE c.phase = "txcrc"
      BY <3>3 DEF Took
    <3>4. CASE c.phase = "txanswer"
      BY <3>4 DEF Took, TxResponse
    <3>5. CASE c.phase = "txbusy"
      BY <3>5 DEF Took, TxIdle
    <3>6. CASE c.phase = "txidle"
      BY <3>6 DEF Took, TxIdle
    <3> QED
      BY <2>0, <3>1, <3>2, <3>3, <3>4, <3>5, <3>6
  <2> HIDE DEF e
  <2>2. Mid(e, c)
    BY <1>0, <2>1, MidIs
  <2> QED
    BY <2>0, <2>2 DEF RxPhases
<1>7. Good
  <2>1. c.phase \in {"send", "answer", "rxtoken", "rxdata", "rxcrc"} \union TxPhases
    BY DEF CtlFine, Phases, RxPhases
  <2> QED
    BY <1>1, <1>2, <1>3, <1>4, <1>5, <1>6, <2>1
<1> HIDE DEF e, Good
<1>8. Mid(e, c) /\ IsCtl(e)
  BY <1>7 DEF Good, Mid
<1>9. /\ d.phase = e.phase /\ d.err = e.err /\ d.lgblklen = e.lgblklen /\ d.wr = e.wr /\ d.n = e.n /\ d.arg = e.arg /\ d.left = e.left
      /\ e.phase = "off" => ~d.busy
      /\ e.phase # "off" => d.usefifo = e.usefifo
  BY <1>8, Settled
<1> HIDE DEF d
<1>10. SameCommand(d, c) /\ (d.busy => d.usefifo = c.usefifo)
  BY <1>8, <1>9 DEF Mid, SameCommand
<1>11. (c.phase = "send" => d.err = c.err)
       /\ (~c.wr /\ c.phase \in {"answer"} \union RxPhases => d.phase \in {"answer", "off"} \union RxPhases)
  BY <1>7, <1>9 DEF Good
<1> QED
  BY <1>10, <1>11 DEF d, e

\* The end of an answer.
AnswerIs(c, r, err) ==
    [c EXCEPT !.rsp = r, !.r1 = r[1], !.err = err, !.addr = 0,
              !.data = [from |-> "cmd", v |-> IF c.left = 1 THEN 255 ELSE r[5]],
              !.phase = IF ~c.usefifo \/ err THEN "off" ELSE IF c.wr THEN "txtoken" ELSE "rxtoken"]
LEMMA Answered ==
    ASSUME NEW c, NEW u, ~(c.rsp = <<>> /\ Bit(Byt(u), 7)), ~(Len(Append(c.rsp, Byt(u))) < c.left)
    PROVE  ReceiveR(c, u) = AnswerIs(c, Append(c.rsp, Byt(u)), c.err \/ (Append(c.rsp, Byt(u))[1] % 128) \div 2 # 0)
BY DEF ReceiveR, AnswerIs

\* A good first byte ends the wait for the answer.
LEMMA TookGood ==
    ASSUME NEW c, CtlFine(c), c.phase = "answer", c.rsp = <<>>, c.left = 1, NEW b \in {0, 1}
    PROVE  LET d == Settle(Took(c, Byte(b))) IN
           /\ d.r1 = b
           /\ ~c.usefifo => ~d.busy
           /\ c.usefifo /\ c.wr /\ ~c.err => d.busy /\ d.phase = "txtoken"
<1>0. IsCtl(c) /\ c.busy
  BY DEF CtlFine
<1>1. Byt(Byte(b)) = b
  BY DEF Byt, Byte
<1>2. ~Bit(b, 7) /\ (b % 128) \div 2 = 0
  <2>1. 2^7 = 128
    OBVIOUS
  <2>2. b \div 128 = 0
    OBVIOUS
  <2> QED
    BY <2>1, <2>2 DEF Bit
<1>3. PICK r : r = Append(c.rsp, b)
  OBVIOUS
<1>4. r = <<b>>
  BY <1>3
<1>5. Len(r) = 1 /\ r[1] = b
  BY <1>4
<1>6. PICK err : err = (c.err \/ (r[1] % 128) \div 2 # 0)
  BY Zenon
<1>7. err <=> c.err
  BY <1>2, <1>5, <1>6
<1>8. PICK data, ph : data = [from |-> "cmd", v |-> IF c.left = 1 THEN 255 ELSE r[5]]
        /\ ph = IF ~c.usefifo \/ err THEN "off" ELSE IF c.wr THEN "txtoken" ELSE "rxtoken"
  BY ZenonT(60)
<1>9. PICK e : e = [c EXCEPT !.rsp = r, !.r1 = b, !.err = err, !.addr = 0, !.data = data, !.phase = ph]
  OBVIOUS
<1>10. Took(c, Byte(b)) = e
  <2>1. Took(c, Byte(b)) = ReceiveR(c, Byte(b))
    BY DEF Took
  <2>2. ~(Len(r) < c.left)
    BY <1>5
  <2>3. AnswerIs(c, r, err) = e
    BY <1>5, <1>8, <1>9 DEF AnswerIs
  <2>4. ~(c.rsp = <<>> /\ Bit(Byt(Byte(b)), 7)) /\ r = Append(c.rsp, Byt(Byte(b)))
    BY <1>1, <1>2, <1>3
  <2>5. ReceiveR(c, Byte(b)) = AnswerIs(c, Append(c.rsp, Byt(Byte(b))),
                                       c.err \/ (Append(c.rsp, Byt(Byte(b)))[1] % 128) \div 2 # 0)
    BY <2>2, <2>4, Answered, Zenon
  <2>6. ReceiveR(c, Byte(b)) = AnswerIs(c, r, err)
    BY <1>6, <2>4, <2>5, Zenon
  <2> QED
    BY <2>1, <2>3, <2>6, Zenon
<1>11. IsCtl(e) /\ e.phase = ph /\ e.busy = c.busy /\ e.r1 = b
  BY <1>0, <1>9 DEF IsCtl
<1>12. PICK d : d = Settle(e)
  OBVIOUS
<1>13. d.phase = e.phase /\ (e.phase = "off" => ~d.busy) /\ (e.phase # "off" => d.busy = e.busy)
  BY <1>11, <1>12, Settled
<1>14. d.r1 = b
  BY <1>11, <1>12 DEF Settle, IsCtl
<1> QED
  BY <1>0, <1>7, <1>8, <1>10, <1>11, <1>12, <1>13, <1>14

--------------------------------------------------------------------------------
(* One unit each way, for a command in its turn. *)

\* What a step of the wires has to leave behind.
Onward(m, d, st) ==
    /\ ~m.failed /\ DOMAIN m.rspbuf = 1..RSPLEN
    /\ d.busy => Unseen(m, d, st) \/ Seen(m, d, st)
    /\ d.busy /\ d.n = 24 /\ d.phase = "answer" => ~d.err
    /\ ~d.busy => AtRest(m, d, st)

\* The command goes to a card that waits for one.
LEMMA CommandGoes ==
    ASSUME NEW c, CtlFine(c), c.phase = "send", NEW k, CardFine(k), ~k.failed, DOMAIN k.rspbuf = 1..RSPLEN,
           NEW st, Unseen(k, c, st), c.n = 24 => ~c.err
    PROVE  Onward(Receive(k, Sent(c)), Settle(Took(c, k.out)), st)
<1>1. PICK m, d, u : m = Receive(k, u) /\ d = Settle(Took(c, k.out)) /\ u = Sent(c)
  OBVIOUS
<1>2. u = Command(c.n, c.arg) /\ u.k = "cmd"
  BY <1>1 DEF Sent, Command
<1>3. ~k.reading /\ k.cmdidx = 0 /\ \E before \in Stages : Leads(before, c.n, c.arg, st) /\ InStage(k, before)
  BY DEF Unseen
<1>4. m.cmdidx = 6 /\ m.cmd = u /\ m.out = Ones /\ ~m.reading
  BY <1>1, <1>3, NewCommand
<1>5. m.reset_state = k.reset_state /\ m.altcmd = k.altcmd /\ m.rspbuf = k.rspbuf /\ ~m.failed
  BY <1>1, <1>2, <1>3, CommandTaken
<1>6. d.busy /\ d.phase = "answer" /\ d.rsp = <<>>
  BY <1>1, TookSend
<1>7. c.busy
  BY DEF CtlFine
<1>8. d.n = c.n /\ d.arg = c.arg /\ d.err = c.err
  BY <1>1, <1>7, TookKeeps DEF SameCommand
<1>9. Unseen(m, d, st)
  <2>1. \E before \in Stages : Leads(before, d.n, d.arg, st) /\ InStage(m, before)
    BY <1>3, <1>5, <1>8 DEF InStage
  <2>2. m.cmd = Command(d.n, d.arg)
    BY <1>2, <1>4, <1>8
  <2> QED
    BY <1>4, <1>6, <2>1, <2>2 DEF Unseen
<1>10. Onward(m, d, st)
  BY <1>5, <1>6, <1>8, <1>9 DEF Onward
<1> QED
  BY <1>1, <1>10

\* The controller hears nothing while the card looks at the command.
LEMMA Listens ==
    ASSUME NEW c, CtlFine(c), c.phase = "answer", c.rsp = <<>>
    PROVE  Settle(Took(c, Ones)) = c
<1>1. Bit(Byt(Ones), 7)
  BY Bytes
<1> QED
  BY <1>1, TookAnswer

\* It has sent the whole command after six units.
LEMMA ListenSent ==
    ASSUME NEW c, c.phase \in {"answer", "txanswer", "txbusy", "txidle"} \union RxPhases
    PROVE  Sent(c) = Ones
BY DEF Sent, RxPhases

\* The card looks at its command.
LEMMA CommandLooked ==
    ASSUME NEW c, CtlFine(c), c.phase = "answer", NEW k, CardFine(k), ~k.failed, DOMAIN k.rspbuf = 1..RSPLEN,
           NEW st, Unseen(k, c, st), c.n = 24 => ~c.err
    PROVE  Onward(Receive(k, Sent(c)), Settle(Took(c, k.out)), st)
<1>1. PICK m : m = Receive(k, Sent(c))
  OBVIOUS
<1>2. ~k.reading /\ k.cmdidx = 6 /\ c.rsp = <<>> /\ k.cmd = Command(c.n, c.arg) /\ k.out = Ones
  BY DEF Unseen
<1>3. PICK before \in Stages : Leads(before, c.n, c.arg, st) /\ InStage(k, before)
  BY DEF Unseen
<1>4. Settle(Took(c, k.out)) = c
  BY <1>2, Listens
<1>5. m = Process(k)
  BY <1>1, <1>2 DEF Receive
<1>6. /\ ~m.failed /\ InStage(m, st) /\ m.cmdidx = 7 /\ DOMAIN m.rspbuf = 1..RSPLEN
      /\ m.reading <=> c.n = 24
      /\ c.n = 41 => m.rspidx = 0 /\ m.out = Ones /\ m.rspbuf[1] = Byte(IF m.reset_state = "RESET_COMPLETE" THEN 0 ELSE 1)
  BY <1>2, <1>3, <1>5, ProcessFollowed
<1>7. c.n = 41 => Polling(m, c)
  BY <1>2, <1>6 DEF Polling
<1>8. Seen(m, c, st)
  BY <1>6, <1>7 DEF Seen
<1>9. c.busy
  BY DEF CtlFine
<1>10. Onward(m, c, st)
  BY <1>6, <1>8, <1>9 DEF Onward
<1> QED
  BY <1>1, <1>4, <1>10

\* A card that answers, and a controller that listens.
LEMMA AnswerGoes ==
    ASSUME NEW c, CtlFine(c), c.busy, c.n \notin {24, 41}, ~c.wr, NEW k, CardFine(k), ~k.failed, DOMAIN k.rspbuf = 1..RSPLEN,
           NEW st, st # "polled", Seen(k, c, st)
    PROVE  Onward(Receive(k, Sent(c)), Settle(Took(c, k.out)), st)
<1>1. PICK m, d, u : m = Receive(k, u) /\ d = Settle(Took(c, k.out)) /\ u = Sent(c)
  OBVIOUS
<1>2. InStage(k, st) /\ k.cmdidx = 7 /\ ~k.reading /\ c.phase \in {"answer"} \union RxPhases
  BY DEF Seen
<1>3. u = Ones
  BY <1>1, <1>2, ListenSent
<1>4. ~m.reading /\ m.cmdidx = 7 /\ m.rspbuf = k.rspbuf
  BY <1>1, <1>2, AnswerFine
<1>5. m.reset_state = k.reset_state /\ m.altcmd = k.altcmd /\ ~m.failed
  BY <1>1, <1>2, <1>3, AnswerQuiet
<1>6. InStage(m, st)
  BY <1>2, <1>5 DEF InStage
<1>7. SameCommand(d, c) /\ d.phase \in {"answer", "off"} \union RxPhases
  BY <1>1, <1>2, TookKeeps
<1>8. d.busy <=> d.phase # "off"
  BY <1>1, TookFine DEF Kept, CtlFine
<1>9. d.n = c.n
  BY <1>7 DEF SameCommand
<1>10. d.busy => Seen(m, d, st)
  BY <1>4, <1>6, <1>7, <1>8, <1>9 DEF Seen
<1>11. AtRest(m, d, st)
  BY <1>4, <1>6 DEF AtRest
<1>12. Onward(m, d, st)
  BY <1>4, <1>5, <1>9, <1>10, <1>11 DEF Onward
<1> QED
  BY <1>1, <1>12

\* ACMD41: what the register shows in the end is what the card said.
LEMMA PollGoes ==
    ASSUME NEW c, CtlFine(c), c.busy, c.n = 41, c.left = 1, ~c.usefifo, NEW k, CardFine(k), ~k.failed, DOMAIN k.rspbuf = 1..RSPLEN,
           NEW st, Seen(k, c, st)
    PROVE  Onward(Receive(k, Sent(c)), Settle(Took(c, k.out)), st)
<1>1. PICK m, d, u : m = Receive(k, u) /\ d = Settle(Took(c, k.out)) /\ u = Sent(c)
  OBVIOUS
<1>2. InStage(k, st) /\ k.cmdidx = 7 /\ ~k.reading /\ Polling(k, c)
  BY DEF Seen
<1>3. c.phase = "answer" /\ c.rsp = <<>>
  BY <1>2 DEF Polling
<1>4. u = Ones
  BY <1>1, <1>3, ListenSent
<1>5. /\ ~m.reading /\ m.cmdidx = 7 /\ m.rspbuf = k.rspbuf
      /\ \/ m.rspidx = k.rspidx /\ m.out = Ones
         \/ m.rspidx = k.rspidx + 1 /\ m.out = k.rspbuf[k.rspidx + 1]
         \/ k.rspidx > 0
  BY <1>1, <1>2, AnswerFine
<1>6. m.reset_state = k.reset_state /\ m.altcmd = k.altcmd /\ ~m.failed
  BY <1>1, <1>2, <1>4, AnswerQuiet
<1>7. InStage(m, st)
  BY <1>2, <1>6 DEF InStage
<1>8. CASE k.rspidx = 0 /\ k.out = Ones
  <2>1. d = c
    BY <1>1, <1>3, <1>8, Listens
  <2>2. (m.rspidx = 0 /\ m.out = Ones) \/ (m.rspidx = 1 /\ m.out = m.rspbuf[1])
    <3>1. 0 + 1 = 1 /\ ~(0 > 0)
      OBVIOUS
    <3> QED
      BY <1>5, <1>8, <3>1
  <2>3. Polling(m, c)
    BY <1>2, <1>5, <1>6, <2>2 DEF Polling
  <2>4. Seen(m, c, st)
    BY <1>3, <1>5, <1>7, <2>3 DEF Seen
  <2>5. Onward(m, d, st)
    BY <1>5, <1>6, <2>1, <2>4 DEF Onward
  <2> QED
    BY <1>1, <2>5
<1>9. CASE k.rspidx = 1 /\ k.out = k.rspbuf[1]
  <2>1. PICK b \in {0, 1} : b = IF k.reset_state = "RESET_COMPLETE" THEN 0 ELSE 1
    OBVIOUS
  <2>2. k.out = Byte(b)
    BY <1>2, <1>9, <2>1 DEF Polling
  <2>3. d.r1 = b /\ ~d.busy
    BY <1>1, <1>3, <2>2, TookGood
  <2>4. b = 1 => Bit(b, 0)
    <3>1. 2^0 = 1
      OBVIOUS
    <3> QED
      BY <3>1 DEF Bit
  <2>5. Bit(d.r1, 0) \/ m.reset_state = "RESET_COMPLETE"
    BY <1>6, <2>1, <2>3, <2>4
  <2>6. AtRest(m, d, st)
    BY <1>5, <1>7, <2>5 DEF AtRest
  <2>7. Onward(m, d, st)
    BY <1>5, <1>6, <2>3, <2>6 DEF Onward
  <2> QED
    BY <1>1, <2>7
<1> QED
  BY <1>2, <1>8, <1>9 DEF Polling

\* A sector on its way to the card, which takes the whole of it.
LEMMA SectorGoes ==
    ASSUME NEW c, CtlFine(c), c.busy, c.n = 24, c.lgblklen = 9, NEW k, CardFine(k), ~k.failed, DOMAIN k.rspbuf = 1..RSPLEN,
           NEW st, st # "polled", Seen(k, c, st), Writes(k, c), c.phase = "answer" => ~c.err
    PROVE  Onward(Receive(k, Sent(c)), Settle(Took(c, k.out)), st)
<1>1. PICK m, d, u : m = Receive(k, u) /\ d = Settle(Took(c, k.out)) /\ u = Sent(c)
  OBVIOUS
<1>2. InStage(k, st) /\ k.cmdidx = 7 /\ c.phase # "send" /\ (c.phase \in {"txanswer", "txbusy", "txidle"} => ~k.reading)
  BY DEF Seen
<1>3. /\ c.usefifo /\ c.wr /\ c.left = 1 /\ c.id = 0
      /\ c.phase = "answer" => c.rsp = <<>>
  BY DEF CtlFine
<1>4. d.n = 24
  BY <1>1, TookKeeps DEF SameCommand
<1>5. Ones # StartToken
  BY DEF Ones, StartToken, Byte
<1>6. BlkLen(c) = BLKWORDS /\ BLKWORDS \in Nat
  BY CardAssumption DEF BlkLen
<1>7. k.reading =>
         /\ m.cmdidx = 7
         /\ ~k.token => m.reading
         /\ k.token /\ Len(k.rx) < BLKWORDS => m.reading
  BY <1>1, <1>2, BlockSent
<1>8. k.reading =>
         /\ m.reset_state = k.reset_state /\ m.altcmd = k.altcmd /\ m.rspbuf = k.rspbuf
         /\ ~k.token \/ Len(k.rx) < BLKWORDS => ~m.failed
  BY <1>1, DataKeeps
<1>9. ~k.reading =>
         /\ m.reset_state = k.reset_state /\ m.altcmd = k.altcmd /\ ~m.reading /\ m.cmdidx = 7 /\ m.rspbuf = k.rspbuf
         /\ u = Ones => ~m.failed
  BY <1>1, <1>2, AnswerFine, AnswerQuiet
<1>10. k.reading \in BOOLEAN
  BY DEF CardFine
<1>11. InStage(m, st) /\ m.cmdidx = 7 /\ DOMAIN m.rspbuf = 1..RSPLEN
  BY <1>2, <1>7, <1>8, <1>9, <1>10 DEF InStage
\* What is left to see.
<1> DEFINE Left == /\ ~m.failed
                   /\ d.busy => d.phase \notin {"send", "answer"} /\ (d.phase \in {"txanswer", "txbusy", "txidle"} => ~m.reading)
                   /\ ~d.busy => ~m.reading
<1>12. ASSUME c.phase = "answer" PROVE Left
  <2>1. k.reading /\ ~k.token /\ k.out = Byte(0)
    BY <1>2, <1>12 DEF Writes, Waiting
  <2>2. d.busy /\ d.phase = "txtoken"
    BY <1>1, <1>3, <1>12, <2>1, TookGood
  <2> QED
    BY <1>8, <2>1, <2>2
<1>13. ASSUME c.phase = "txtoken" PROVE Left
  <2>1. k.reading /\ ~k.token
    BY <1>13 DEF Writes
  <2>2. d.busy /\ d.phase = "txdata"
    BY <1>1, <1>13, TookBlock
  <2> QED
    BY <1>8, <2>1, <2>2
<1>14. ASSUME c.phase = "txdata" PROVE Left
  <2>1. Received(k, c) /\ c.addr \in 0..(BLKWORDS - 1)
    BY <1>6, <1>14 DEF Writes
  <2>2. k.reading /\ k.token /\ Len(k.rx) < BLKWORDS
    BY <1>6, <2>1 DEF Received
  <2>3. d.busy /\ d.phase \in {"txdata", "txcrc"}
    BY <1>1, <1>14, TookBlock
  <2> QED
    BY <1>8, <2>2, <2>3
<1>15. ASSUME c.phase = "txcrc" PROVE Left
  <2>1. Received(k, c) /\ c.addr = BLKWORDS
    BY <1>6, <1>15 DEF Writes
  <2>2. PICK f : f = c.fifo[0]
    OBVIOUS
  <2>3. IsFifo(f) /\ BLKWORDS \in 1..BLKWORDS
    BY <2>2, CardAssumption DEF CtlFine, FifosFine, FIFOs
  <2>4. SubSeq(f, 1, BLKWORDS) = [i \in 1..BLKWORDS |-> f[i]]
    BY <2>3, SubIs
  <2>5. u = CRC([i \in 1..BLKWORDS |-> f[i]])
    <3>1. u = CRC(SubSeq(f, 1, BLKWORDS))
      BY <1>1, <1>3, <1>6, <1>15, <2>2 DEF Sent
    <3> QED
      BY <2>4, <3>1
  <2>6. k.reading /\ k.token /\ k.rx = [i \in 1..BLKWORDS |-> Word(f[i])]
    BY <2>1, <2>2 DEF Received
  <2>7. ~m.failed
    BY <1>1, <2>5, <2>6, DataKeeps, SMTT(60)
  <2>8. ~m.reading
    BY <1>1, <2>5, <2>6, BlockSent, SMTT(60)
  <2>9. d.busy /\ d.phase = "txanswer"
    BY <1>1, <1>15, TookBlock
  <2> QED
    BY <2>7, <2>8, <2>9
<1>16. ASSUME c.phase = "txanswer" PROVE Left
  <2>1. u = Ones /\ ~k.reading
    BY <1>1, <1>2, <1>16, ListenSent
  <2>2. d.busy /\ (d = c \/ d.phase = "txbusy")
    BY <1>1, <1>16, TookTxAnswer
  <2> QED
    BY <1>9, <1>16, <2>1, <2>2
<1>17. ASSUME c.phase \in {"txbusy", "txidle"} PROVE Left
  <2>1. u = Ones /\ ~k.reading
    BY <1>1, <1>2, <1>17, ListenSent
  <2>2. d.busy => d.phase \in {"txbusy", "txidle"}
    BY <1>1, <1>17, TookTxEnd
  <2> QED
    BY <1>9, <2>1, <2>2
<1>18. Left
  <2>1. c.phase \in {"answer", "txtoken", "txdata", "txcrc", "txanswer", "txbusy", "txidle"}
    BY <1>2 DEF CtlFine, Phases, RxPhases, TxPhases
  <2> QED
    BY <1>12, <1>13, <1>14, <1>15, <1>16, <1>17, <2>1
<1>19. d.busy => Seen(m, d, st)
  BY <1>4, <1>11, <1>18 DEF Seen
<1>20. ~d.busy => AtRest(m, d, st)
  BY <1>11, <1>18 DEF AtRest
<1>21. Onward(m, d, st)
  BY <1>11, <1>18, <1>19, <1>20 DEF Onward
<1> QED
  BY <1>1, <1>21

\* One unit each way, whatever the command.
LEMMA UnitGoes ==
    ASSUME NEW c, CtlFine(c), c.busy, c.lgblklen = 9, NEW k, CardFine(k), ~k.failed, DOMAIN k.rspbuf = 1..RSPLEN,
           NEW st, InProgress(k, c, st), c.n = 24 /\ c.phase # "send" => Writes(k, c)
    PROVE  Onward(Receive(k, Sent(c)), Settle(Took(c, k.out)), st)
<1>1. /\ st = "polled" <=> c.n = 41
      /\ c.wr <=> c.n = 24
      /\ c.n = 41 => c.left = 1 /\ ~c.usefifo
      /\ c.n = 24 /\ c.phase \in {"send", "answer"} => ~c.err
      /\ Unseen(k, c, st) \/ Seen(k, c, st)
  BY DEF InProgress
<1>2. CASE Unseen(k, c, st) /\ c.phase = "send"
  BY <1>1, <1>2, CommandGoes
<1>3. CASE Unseen(k, c, st) /\ c.phase = "answer"
  BY <1>1, <1>3, CommandLooked
<1>4. CASE Seen(k, c, st) /\ c.n = 24
  <2>1. c.phase # "send" /\ st # "polled"
    BY <1>1, <1>4 DEF Seen
  <2> QED
    BY <1>1, <1>4, <2>1, SectorGoes
<1>5. CASE Seen(k, c, st) /\ c.n = 41
  BY <1>1, <1>5, PollGoes
<1>6. CASE Seen(k, c, st) /\ c.n \notin {24, 41}
  BY <1>1, <1>6, AnswerGoes
<1>7. Unseen(k, c, st) => c.phase \in {"send", "answer"}
  BY DEF Unseen
<1> QED
  BY <1>1, <1>2, <1>3, <1>4, <1>5, <1>6, <1>7

--------------------------------------------------------------------------------
(* The invariant: the card has come up with its flag set, or nothing has failed yet and, until
   the card is pulled, the label of the current access is true of card and controller. *)

\* The program and the two agree on where the card stands; until then nothing has failed.
Agrees(k, c, p) == p \in 1..(Len(main) + 1) /\ Labelled(k, c, Lab[p])
Safe == card.unset \/ (~card.failed /\ (pulled \/ Agrees(card, ctl, pc)))

\* What the label of the current access says.
LEMMA HereIs ==
    ASSUME NEW p \in 1..(Len(main) + 1)
    PROVE  Lab[p] \in Labels /\ Len(main) \in Nat
<1>1. main \in Seq(AllOps) /\ Fits(main, Lab)
  BY LabFits
<1>2. Len(main) \in Nat
  BY <1>1
<1> QED
  BY <1>1, <1>2 DEF Fits

\* One unit each way.
LEMMA SafeTransfer ==
    ASSUME Inv, Safe, Transfer
    PROVE  Safe'
<1>1. Core /\ CtlFine(ctl) /\ CardFine(card) /\ card.cmdidx \in {0, 6, 7} /\ ctl.busy /\ ~card.failed
  BY DEF Inv, Core, CtlOK, CardOK, Transfer, Running
<1>2. CASE pulled
  <2>1. card' = card /\ pulled'
    BY <1>2 DEF Transfer
  <2> QED
    BY <1>2, <2>1 DEF Safe
<1>3. CASE ~pulled
  <2>1. PICK d, m : d = Settle(Took(ctl, card.out)) /\ m = Receive(card, Sent(ctl))
    OBVIOUS
  <2>2. ctl' = d /\ pc' = pc /\ card' = (IF d.busy THEN m ELSE Deselect(m))
    BY <1>3, <2>1 DEF Transfer
  <2>3. CardFine(m) /\ IsCard(m)
    BY <1>1, <2>1, ReceiveFine DEF CardFine
  <2>4. m.unset = card.unset
    BY <1>1, <2>1, ReceiveUnset
  <2>5. PICK z : z = Deselect(m)
    OBVIOUS
  <2>6. /\ z.unset = m.unset /\ z.failed = m.failed /\ z.reset_state = m.reset_state /\ z.altcmd = m.altcmd
        /\ z.reading = m.reading /\ z.rspbuf = m.rspbuf
    BY <2>3, <2>5, DeselectKeeps
  <2>7. card' = m \/ card' = z
    BY <2>2, <2>5
  <2>8. CASE card.unset
    <3>1. card'.unset = card.unset
      BY <2>4, <2>6, <2>7
    <3> QED
      BY <2>8, <3>1 DEF Safe
  <2>9. CASE ~card.unset
    <3>1. Agrees(card, ctl, pc)
      BY <1>3, <2>9 DEF Safe
    <3>2. PICK a : a = Lab[pc]
      OBVIOUS
    <3>3. pc \in 1..(Len(main) + 1) /\ Labelled(card, ctl, a) /\ a \in Labels
      BY <3>1, <3>2, HereIs DEF Agrees
    <3>4. ~a.quiet /\ ~(a.v >= 0)
      BY <1>1, <3>3, LabelIs DEF Labelled
    <3>5. ctl.lgblklen = 9 /\ DOMAIN card.rspbuf = 1..RSPLEN /\ InProgress(card, ctl, a.st)
      BY <1>1, <3>3 DEF Labelled
    <3>6. ctl.n = 24 /\ ctl.phase # "send" => Writes(card, ctl)
      BY <1>1, <1>3 DEF Core, WriteOK, Fine
    <3>7. Onward(m, d, a.st)
      BY <1>1, <2>1, <3>5, <3>6, UnitGoes
    <3>8. SameCommand(d, ctl) /\ (d.busy => d.usefifo = ctl.usefifo) /\ Kept(d, ctl)
      BY <1>1, <2>1, TookKeeps, TookFine
    <3>9. d.lgblklen = 9 /\ d.phase # "send"
      BY <3>5, <3>8 DEF SameCommand, Kept
    <3>10. d.busy => InProgress(m, d, a.st)
      BY <3>5, <3>7, <3>8, <3>9 DEF Onward, InProgress, SameCommand
    <3>11. ~m.failed /\ DOMAIN m.rspbuf = 1..RSPLEN /\ (~d.busy => AtRest(m, d, a.st))
      BY <3>7 DEF Onward
    <3>12. ~d.busy => AtRest(z, d, a.st)
      BY <2>6, <3>11 DEF AtRest, InStage
    <3>13. Labelled(card', d, a) /\ ~card'.failed
      <4>1. CASE d.busy
        <5>1. card' = m
          BY <2>2, <4>1
        <5> QED
          BY <3>4, <3>9, <3>10, <3>11, <4>1, <5>1 DEF Labelled
      <4>2. CASE ~d.busy
        <5>1. card' = z
          BY <2>2, <2>5, <4>2
        <5> QED
          BY <2>6, <3>4, <3>9, <3>11, <3>12, <4>2, <5>1 DEF Labelled
      <4> QED
        BY <4>1, <4>2
    <3>14. Agrees(card', ctl', pc')
      BY <2>2, <3>2, <3>3, <3>13 DEF Agrees
    <3> QED
      BY <3>13, <3>14 DEF Safe
  <2> QED
    BY <2>8, <2>9
<1> QED
  BY <1>2, <1>3

\* The watchdog only runs out on a card that is at rest as well.
LEMMA SilentIs ==
    ASSUME NEW c, CtlFine(c), c.busy, NEW k, CardFine(k), Silent(k), NEW st, InProgress(k, c, st),
           c.n = 24 /\ c.phase # "send" => Writes(k, c), Took(c, Ones) = c
    PROVE  InStage(k, st) /\ ~k.reading /\ st # "polled"
<1>1. /\ st = "polled" <=> c.n = 41
      /\ Unseen(k, c, st) \/ Seen(k, c, st)
  BY DEF InProgress
<1>2. k.out = Ones /\ (k.reading \/ (k.cmdidx = 7 /\ k.rspidx = RSPLEN))
  BY DEF Silent
<1>3. ~Unseen(k, c, st)
  BY <1>2 DEF Unseen
<1>4. Seen(k, c, st)
  BY <1>1, <1>3
<1>5. InStage(k, st) /\ k.cmdidx = 7
  BY <1>4 DEF Seen
<1>6. c.n # 41
  <2>1. SUFFICES ASSUME c.n = 41 PROVE FALSE
    OBVIOUS
  <2>2. Polling(k, c) /\ ~k.reading
    BY <1>4, <2>1 DEF Seen
  <2>3. k.rspidx = RSPLEN /\ RSPLEN # 0
    BY <1>2, <2>2, CardAssumption
  <2>4. k.out = Byte(IF k.reset_state = "RESET_COMPLETE" THEN 0 ELSE 1)
    BY <2>2, <2>3 DEF Polling
  <2>5. Byte(0) # Ones /\ Byte(1) # Ones
    <3>1. Byte(0).v[1] = 0 /\ Byte(1).v[1] = 1 /\ Ones.v[1] = 255
      BY DEF Byte, Ones
    <3> QED
      BY <3>1
  <2> QED
    BY <1>2, <2>4, <2>5
<1>7. ~k.reading
  <2>1. CASE c.n # 24
    BY <1>4, <1>6, <2>1 DEF Seen
  <2>2. CASE c.n = 24
    <3>1. c.phase # "send" /\ Writes(k, c) /\ (c.phase \in {"txanswer", "txbusy", "txidle"} => ~k.reading)
      BY <1>4, <2>2 DEF Seen
    <3>2. Settle(c) = c
      BY DEF Settle, CtlFine
    <3>3. c.phase # "answer"
      <4>1. Byte(0) # Ones
        <5>1. Byte(0).v[1] = 0 /\ Ones.v[1] = 255
          BY DEF Byte, Ones
        <5> QED
          BY <5>1
      <4> QED
        BY <1>2, <1>5, <3>1, <4>1 DEF Writes, Waiting
    <3>4. c.phase \notin {"txtoken", "txcrc"}
      BY <3>2, TookBlock
    <3>5. c.phase # "txdata"
      <4>1. SUFFICES ASSUME c.phase = "txdata" PROVE FALSE
        OBVIOUS
      <4>2. c.addr \in 0..(BlkLen(c) - 1)
        BY <3>1, <4>1 DEF Writes
      <4>3. c.addr = c.addr + 1
        BY <3>2, <4>1, TookBlock
      <4> QED
        BY <4>2, <4>3
    <3>6. c.phase \in {"answer", "txtoken", "txdata", "txcrc", "txanswer", "txbusy", "txidle"}
      BY <3>1 DEF Writes
    <3> QED
      BY <3>1, <3>3, <3>4, <3>5, <3>6
  <2> QED
    BY <2>1, <2>2
<1> QED
  BY <1>1, <1>5, <1>6, <1>7

\* The watchdog ends a command without harm.
LEMMA SafeWatchdog ==
    ASSUME Inv, Safe, Watchdog
    PROVE  Safe'
<1>1. Core /\ CtlFine(ctl) /\ CardFine(card) /\ IsCard(card) /\ ctl.busy /\ ~card.failed
  BY DEF Inv, Core, CtlOK, CardOK, CardFine, Watchdog, Running
<1>2. PICK d, e : d = Expired(ctl) /\ e = [ctl EXCEPT !.phase = "off", !.err = TRUE] /\ d = Settle(e)
  BY DEF Expired
<1>3. IsCtl(e) /\ e.phase = "off" /\ e.lgblklen = ctl.lgblklen
  BY <1>1, <1>2 DEF CtlFine, IsCtl
<1>4. ~d.busy /\ d.lgblklen = ctl.lgblklen
  <2>1. d = Settle(e) /\ IsCtl(e)
    BY <1>2, <1>3
  <2>2. d.lgblklen = e.lgblklen
    BY <2>1, Settled
  <2>3. ~d.busy
    BY <1>3, <2>1, Settled
  <2> QED
    BY <1>3, <2>2, <2>3
<1>5. ctl' = d /\ pc' = pc /\ pulled' = pulled /\ card' = (IF pulled THEN card ELSE Deselect(card))
  BY <1>2, <1>4 DEF Watchdog
<1>6. PICK z : z = Deselect(card)
  OBVIOUS
<1>7. /\ z.unset = card.unset /\ z.failed = card.failed /\ z.reset_state = card.reset_state /\ z.altcmd = card.altcmd
      /\ z.reading = card.reading /\ z.rspbuf = card.rspbuf
  BY <1>1, <1>6, DeselectKeeps
<1>8. CASE pulled
  BY <1>5, <1>8 DEF Safe
<1>9. CASE ~pulled /\ card.unset
  BY <1>5, <1>6, <1>7, <1>9 DEF Safe
<1>10. CASE ~pulled /\ ~card.unset
  <2>1. Agrees(card, ctl, pc)
    BY <1>10 DEF Safe
  <2>2. PICK a : a = Lab[pc]
    OBVIOUS
  <2>3. pc \in 1..(Len(main) + 1) /\ Labelled(card, ctl, a) /\ a \in Labels
    BY <2>1, <2>2, HereIs DEF Agrees
  <2>4. ~a.quiet /\ ~(a.v >= 0)
    BY <1>1, <2>3, LabelIs DEF Labelled
  <2>5. ctl.lgblklen = 9 /\ DOMAIN card.rspbuf = 1..RSPLEN /\ InProgress(card, ctl, a.st)
    BY <1>1, <2>3 DEF Labelled
  <2>6. ctl.n = 24 /\ ctl.phase # "send" => Writes(card, ctl)
    BY <1>1, <1>10 DEF Core, WriteOK, Fine
  <2>7. Silent(card) /\ Took(ctl, Ones) = ctl
    BY <1>10 DEF Watchdog
  <2>8. InStage(card, a.st) /\ ~card.reading /\ a.st # "polled"
    BY <1>1, <2>5, <2>6, <2>7, SilentIs
  <2>9. AtRest(z, d, a.st)
    BY <1>7, <2>8 DEF AtRest, InStage
  <2>10. Labelled(z, d, a)
    BY <1>4, <1>7, <2>4, <2>5, <2>9 DEF Labelled
  <2> QED
    BY <1>1, <1>5, <1>6, <1>7, <1>10, <2>2, <2>3, <2>10 DEF Agrees, Safe
<1> QED
  BY <1>8, <1>9, <1>10

\* The accesses, by what they do to the registers and to the program's place.
LEMMA AccessIs ==
    ASSUME NEW o, Access(o)
    PROVE  /\ o.op = "data" => ctl' = WriteData(ctl, o.v) /\ pc' = pc + 1
           /\ o.op = "ctrl" => ctl' = WriteCtrl(ctl, o) /\ pc' = pc + 1
           /\ o.op = "get"  => ctl' = ReadFifo(ctl) /\ pc' = pc + 1
           /\ o.op = "put"  => ctl' = WriteFifo(ctl, o.id, 0) /\ pc' = pc + 1
           /\ o.op = "wait" => ~ctl.busy /\ ctl' = ctl /\ pc' = pc + 1
           /\ o.op = "while1" => ctl' = ctl /\ pc' = (IF Bit(ctl.r1, 0) THEN pc - o.back ELSE pc + 1)
           /\ o.op = "iferr"  => ctl' = ctl /\ pc' = (IF ctl.err THEN pc + 1 ELSE pc + 1 + o.skip)
BY DEF Access

\* An access of the kind that its label promises leads to what the next label says.
LEMMA RestLabelled ==
    ASSUME NEW k, NEW c, NEW d, NEW a, Labelled(k, c, a), ~c.busy, NEW v \in Int, v >= 0 => d.data.v = v,
           ~d.busy, d.r1 = c.r1, d.lgblklen = c.lgblklen
    PROVE  Labelled(k, d, Known(v, a.st))
<1>1. AtRest(k, c, a.st) /\ c.lgblklen = 9 /\ DOMAIN k.rspbuf = 1..RSPLEN
  BY DEF Labelled
<1>2. AtRest(k, d, a.st)
  BY <1>1 DEF AtRest
<1>3. PICK b : b = Known(v, a.st)
  OBVIOUS
<1>4. b.v = v /\ b.st = a.st
  BY <1>3, KnownIs
<1>5. Labelled(k, d, b)
  BY <1>1, <1>2, <1>4 DEF Labelled
<1> QED
  BY <1>3, <1>5

\* The start of a command leads to a label of a command that runs.
LEMMA CommandLabelled ==
    ASSUME NEW c, IsCtl(c), NEW k, k.cmdidx = 0, NEW o, NEW a \in Labels, NEW b \in Labels,
           Labelled(k, c, a), CommandFlow(o, a, b)
    PROVE  Labelled(k, WriteCtrl(c, o), b)
<1>1. /\ o.op = "ctrl" /\ o.n \notin {191, 255} /\ a.quiet /\ a.v >= 0
      /\ Leads(a.st, o.n, a.v, b.st) /\ b = Busy(b.st)
      /\ o.wr <=> o.n = 24
      /\ o.n = 24 => o.clr
      /\ o.n = 41 => ~o.reg /\ ~o.fifo
  BY DEF CommandFlow
<1>2. ~c.busy /\ c.data.v = a.v /\ c.lgblklen = 9 /\ DOMAIN k.rspbuf = 1..RSPLEN /\ InStage(k, a.st) /\ ~k.reading
  BY <1>1 DEF Labelled, AtRest
<1>3. PICK d : d = WriteCtrl(c, o)
  OBVIOUS
<1>4. /\ d.busy /\ d.phase = "send" /\ d.n = o.n /\ d.arg = c.data.v /\ d.wr = o.wr /\ d.left = (IF o.reg THEN 5 ELSE 1)
      /\ d.usefifo = o.fifo /\ d.rsp = <<>> /\ (d.err <=> c.err /\ ~o.clr) /\ d.lgblklen = c.lgblklen
  BY <1>1, <1>2, <1>3, CommandSets
<1>5. PICK st : st = b.st
  OBVIOUS
<1>6. ~b.quiet /\ b.v = -1
  BY <1>1, KnownIs
<1>7. a.st \in Stages
  BY LabelIs
<1>8. Unseen(k, d, st)
  <2>1. Leads(a.st, d.n, d.arg, st) /\ InStage(k, a.st)
    BY <1>1, <1>2, <1>4, <1>5
  <2> QED
    BY <1>2, <1>4, <1>7, <2>1 DEF Unseen
<1>9. st = "polled" <=> d.n = 41
  BY <1>1, <1>4, <1>5 DEF Leads
<1>10. InProgress(k, d, st)
  BY <1>1, <1>4, <1>8, <1>9 DEF InProgress
<1>11. Labelled(k, d, b)
  BY <1>2, <1>4, <1>5, <1>6, <1>10 DEF Labelled
<1> QED
  BY <1>3, <1>11

\* Every access of the CPU leads from what its label says to what the next one does.
LEMMA AccessLabelled ==
    ASSUME Inv, ~pulled, ~card.failed, NEW k, k = card, pc \in 1..Len(main), NEW L, L = Lab, Labelled(k, ctl, L[pc]), Access(main[pc])
    PROVE  Agrees(k, ctl', pc')
<1>0. CtlFine(ctl) /\ IsCtl(ctl) /\ (~ctl.busy => k.cmdidx = 0)
  BY DEF Inv, Core, CtlOK, CtlFine, Deselected, Fine
<1>1. main \in Seq(AllOps) /\ Fits(main, L)
  BY LabFits
<1>2. Len(main) \in Nat /\ pc \in Nat /\ pc + 1 \in 1..(Len(main) + 1) /\ pc \in 1..(Len(main) + 1)
  BY <1>1
<1>3. PICK o, a, b : o = main[pc] /\ a = L[pc] /\ b = L[pc + 1]
  OBVIOUS
<1>4. Edge(main, L, pc) /\ a \in Labels /\ b \in Labels
  BY <1>1, <1>2, <1>3 DEF Fits
<1>5. /\ Flow(o, a, b)
      /\ o.op = "while1" => o.back \in Nat /\ pc - o.back \in 1..pc /\ L[pc - o.back] = Known(a.v, "if")
      /\ o.op = "iferr" => o.skip \in Nat /\ pc + 1 + o.skip \in 1..(Len(main) + 1) /\ L[pc + 1 + o.skip] = a
  BY <1>3, <1>4 DEF Edge
<1>6. Labelled(k, ctl, a) /\ Access(o)
  BY <1>3
<1>7. a.v \in Int /\ a.st \in Stages /\ (a.quiet => ~ctl.busy)
  BY <1>4, <1>6, LabelIs DEF Labelled
<1>8. pc' = pc + 1 /\ Labelled(k, ctl', b) => Agrees(k, ctl', pc')
  BY <1>2, <1>3 DEF Agrees
<1>9. CASE SetFlow(o, a, b)
  <2>1. o.op = "data" /\ a.quiet /\ b = Known(o.v, a.st)
    BY <1>9 DEF SetFlow
  <2>2. pc' = pc + 1 /\ ctl' = WriteData(ctl, o.v) /\ ~ctl.busy
    BY <1>6, <1>7, <2>1, AccessIs
  <2>3. o.v \in Int
    BY <1>4, <2>1, LabelIs, KnownIs
  <2>4. ~ctl'.busy /\ ctl'.data.v = o.v /\ ctl'.r1 = ctl.r1 /\ ctl'.lgblklen = ctl.lgblklen
    BY <1>0, <2>2, DataSets
  <2>5. Labelled(k, ctl', b)
    BY <1>6, <2>1, <2>2, <2>3, <2>4, RestLabelled
  <2> QED
    BY <1>8, <2>2, <2>5
<1>10. CASE AuxFlow(o, a, b)
  <2>1. o.op = "ctrl" /\ o.n \in {191, 255} /\ a.quiet /\ (o.n = 255 => a.v \in Small) /\ b = Known(0, a.st)
    BY <1>10 DEF AuxFlow
  <2>2. pc' = pc + 1 /\ ctl' = WriteCtrl(ctl, o) /\ ~ctl.busy
    BY <1>6, <1>7, <2>1, AccessIs
  <2>3. o.n = 255 => ctl.data.v \in Small
    BY <1>6, <2>1 DEF Labelled, Small
  <2>4. ~ctl'.busy /\ ctl'.data.v = 0 /\ ctl'.r1 = ctl.r1 /\ ctl'.lgblklen = ctl.lgblklen
    BY <1>0, <2>1, <2>2, <2>3, AuxSets
  <2>6. PICK v \in Int : v = 0
    OBVIOUS
  <2>7. b = Known(v, a.st) /\ ctl'.data.v = v
    BY <2>1, <2>4, <2>6
  <2>5. Labelled(k, ctl', b)
    BY <1>6, <2>2, <2>4, <2>7, RestLabelled
  <2> QED
    BY <1>8, <2>2, <2>5
<1>11. CASE CommandFlow(o, a, b)
  <2>1. o.op = "ctrl" /\ a.quiet
    BY <1>11 DEF CommandFlow
  <2>2. pc' = pc + 1 /\ ctl' = WriteCtrl(ctl, o) /\ ~ctl.busy
    BY <1>6, <1>7, <2>1, AccessIs
  <2>3. Labelled(k, ctl', b)
    BY <1>0, <1>4, <1>6, <1>11, <2>2, CommandLabelled
  <2> QED
    BY <1>8, <2>2, <2>3
<1>12. CASE SameFlow(o, a, b)
  <2>1. b = a /\ o.op \in {"get", "iferr", "put"}
    BY <1>12 DEF SameFlow
  <2>2. CASE o.op = "iferr"
    <3>1. ctl' = ctl /\ pc' = (IF ctl.err THEN pc + 1 ELSE pc + 1 + o.skip)
      BY <1>6, <2>2, AccessIs
    <3>2. pc' \in 1..(Len(main) + 1) /\ L[pc'] = a
      BY <1>2, <1>3, <1>5, <2>1, <2>2, <3>1
    <3> QED
      BY <1>6, <3>1, <3>2 DEF Agrees
  <2>3. CASE o.op \in {"get", "put"}
    <3>1. pc' = pc + 1 /\ (ctl' = ReadFifo(ctl) \/ ctl' = WriteFifo(ctl, o.id, 0))
      BY <1>6, <2>3, AccessIs
    <3>2. SameCtl(ctl', ctl)
      BY <1>0, <3>1, FifoSame
    <3>3. Labelled(k, ctl', b)
      BY <1>6, <2>1, <3>2, LabelledSame
    <3> QED
      BY <1>8, <3>1, <3>3
  <2> QED
    BY <2>1, <2>2, <2>3
<1>13. CASE WaitFlow(o, a, b)
  <2>1. o.op = "wait" /\ b = Known(a.v, a.st)
    BY <1>13 DEF WaitFlow
  <2>2. ~ctl.busy /\ ctl' = ctl /\ pc' = pc + 1
    BY <1>6, <2>1, AccessIs
  <2>3. a.v >= 0 => ctl.data.v = a.v
    BY <1>6 DEF Labelled
  <2>4. Labelled(k, ctl', b)
    BY <1>6, <1>7, <2>1, <2>2, <2>3, RestLabelled
  <2> QED
    BY <1>8, <2>2, <2>4
<1>14. CASE PollFlow(o, a, b)
  <2>1. o.op = "while1" /\ a.quiet /\ a.st = "polled" /\ b = Known(a.v, "complete")
    BY <1>14 DEF PollFlow
  <2>2. ctl' = ctl /\ pc' = (IF Bit(ctl.r1, 0) THEN pc - o.back ELSE pc + 1) /\ ~ctl.busy
    BY <1>6, <1>7, <2>1, AccessIs
  <2>3. /\ InStage(k, "polled") /\ ~k.reading /\ (Bit(ctl.r1, 0) \/ k.reset_state = "RESET_COMPLETE")
        /\ ctl.lgblklen = 9 /\ DOMAIN k.rspbuf = 1..RSPLEN /\ (a.v >= 0 => ctl.data.v = a.v)
    BY <1>6, <2>1, <2>2 DEF Labelled, AtRest
  <2>4. ASSUME NEW st \in {"if", "complete"}, InStage(k, st), NEW y, y = Known(a.v, st) PROVE Labelled(k, ctl, y)
    <3>1. y.v = a.v /\ y.st = st
      BY <2>4, KnownIs
    <3>2. AtRest(k, ctl, st)
      BY <2>3, <2>4 DEF AtRest
    <3> QED
      BY <2>2, <2>3, <3>1, <3>2 DEF Labelled
  <2>5. CASE Bit(ctl.r1, 0)
    <3>1. InStage(k, "if")
      BY <2>3, ResetsAre DEF InStage
    <3>2. pc' = pc - o.back /\ pc' \in 1..(Len(main) + 1) /\ L[pc'] = Known(a.v, "if")
      BY <1>2, <1>5, <2>1, <2>2, <2>5
    <3>3. Labelled(k, ctl, L[pc'])
      BY <2>4, <3>1, <3>2
    <3> QED
      BY <2>2, <3>2, <3>3 DEF Agrees
  <2>6. CASE ~Bit(ctl.r1, 0)
    <3>1. InStage(k, "complete")
      BY <2>3, <2>6, ResetsAre DEF InStage
    <3>2. Labelled(k, ctl, b)
      BY <2>1, <2>4, <3>1
    <3> QED
      BY <1>8, <2>2, <2>6, <3>2
  <2> QED
    BY <2>5, <2>6
<1> QED
  BY <1>5, <1>9, <1>10, <1>11, <1>12, <1>13, <1>14 DEF Flow

\* An access of the CPU keeps the invariant.
LEMMA SafeCpu ==
    ASSUME Inv, Safe, Cpu
    PROVE  Safe'
<1>1. pc \in 1..Len(main) /\ Access(main[pc]) /\ card' = card /\ pulled' = pulled /\ ~card.failed
  BY MainIs DEF Cpu, Running
<1>2. CASE card.unset \/ pulled
  BY <1>1, <1>2 DEF Safe
<1>3. CASE ~card.unset /\ ~pulled
  <2>1. Labelled(card, ctl, Lab[pc])
    BY <1>3 DEF Safe, Agrees
  <2>2. PICK k, L : k = card /\ L = Lab
    OBVIOUS
  <2>3. Agrees(k, ctl', pc')
    BY <1>1, <1>3, <2>1, <2>2, AccessLabelled
  <2> QED
    BY <1>1, <2>2, <2>3 DEF Safe
<1> QED
  BY <1>2, <1>3

\* The card's power up changes nothing of this.
LEMMA SafeReady ==
    ASSUME Inv, Safe, CardReady
    PROVE  Safe'
<1>1. IsCard(card)
  BY DEF Inv, Core, CardOK, CardFine
<1>2. ctl' = ctl /\ pc' = pc /\ pulled' = pulled /\ card' = [card EXCEPT !.powerup = "done"]
  BY DEF CardReady, Ready
<1>3. PICK k, m : k = card /\ m = card'
  OBVIOUS
<1>4. /\ m.unset = k.unset /\ m.failed = k.failed /\ m.reset_state = k.reset_state /\ m.altcmd = k.altcmd /\ m.cmdidx = k.cmdidx
      /\ m.reading = k.reading /\ m.out = k.out /\ m.cmd = k.cmd /\ m.rspbuf = k.rspbuf /\ m.rspidx = k.rspidx
  BY <1>1, <1>2, <1>3 DEF IsCard
<1>5. \A st : InStage(m, st) <=> InStage(k, st)
  BY <1>4 DEF InStage
<1>6. \A c, st : Unseen(k, c, st) => Unseen(m, c, st)
  BY <1>4, <1>5 DEF Unseen
<1>7. \A c, st : Seen(k, c, st) => Seen(m, c, st)
  BY <1>4, <1>5 DEF Seen, Polling
<1>8. \A c, st : InProgress(k, c, st) => InProgress(m, c, st)
  BY <1>6, <1>7 DEF InProgress
<1>9. \A c, st : AtRest(k, c, st) => AtRest(m, c, st)
  BY <1>4, <1>5 DEF AtRest
<1>10. \A c, a : Labelled(k, c, a) => Labelled(m, c, a)
  BY <1>4, <1>8, <1>9 DEF Labelled
<1> QED
  BY <1>2, <1>3, <1>4, <1>10 DEF Safe, Agrees

\* Power up.
LEMMA SafeInit ==
    ASSUME Init
    PROVE  Safe
<1>1. PICK f \in BOOLEAN : card = PowerUp(f)
  BY DEF Init
<1>2. /\ card.unset = f /\ card.altcmd = f /\ ~card.failed /\ card.reset_state = "POWERUP_RESET" /\ ~card.reading
      /\ DOMAIN card.rspbuf = 1..RSPLEN
  BY <1>1 DEF PowerUp, Response
<1>3. pc = 1 /\ ~ctl.busy /\ ctl.lgblklen = 9 /\ ctl.data.v = 0
  BY DEF Init, Controller
<1>4. CASE f
  BY <1>2, <1>4 DEF Safe
<1>5. CASE ~f
  <2>1. AtRest(card, ctl, "reset")
    BY <1>2, <1>5, ResetsAre DEF AtRest, InStage
  <2>2. PICK a : a = Known(0, "reset")
    OBVIOUS
  <2>3. a.v = 0 /\ a.st = "reset"
    BY <2>2, KnownIs
  <2>4. Labelled(card, ctl, a)
    BY <1>2, <1>3, <2>1, <2>3 DEF Labelled
  <2>5. Lab[1] = a /\ 1 \in 1..(Len(main) + 1)
    BY <2>2, LabFits, MainIs
  <2> QED
    BY <1>2, <1>3, <2>4, <2>5 DEF Safe, Agrees
<1> QED
  BY <1>4, <1>5

\* Every step keeps the invariant.
LEMMA SafeNext ==
    ASSUME Inv, Safe, [Next]_vars
    PROVE  Safe'
<1>1. CASE UNCHANGED vars
  BY <1>1 DEF vars, Safe, Agrees
<1>2. CASE Pull
  BY <1>2 DEF Pull, Running, Safe
<1> QED
  BY <1>1, <1>2, SafeCpu, SafeTransfer, SafeWatchdog, SafeReady DEF Next

\* No assertion of the simulated SD card fails, wherever the card is pulled, if the flag that nothing sets starts clear.
THEOREM CardIsContent == Spec => []CardAssertionsHold
<1>1. Init => Safe
  BY SafeInit
<1>2. Inv /\ Safe /\ [Next]_vars => Safe'
  BY SafeNext
<1>3. Safe => CardAssertionsHold
  BY DEF Safe, CardAssertionsHold
<1> QED
  BY <1>1, <1>2, <1>3, InvHolds, PTL DEF Spec
================================================================================
