------------------------------- MODULE SdCard -------------------------------
(* The SD card of the simulation, sim/verilated/sdspisim.cpp: a card is a record
   of the simulator's members, Receive is what the end of one unit on the wires
   does to it and Deselect the rise of chip select. A unit is a byte, the six
   bytes of a command, or, of a block of data, one word or the two bytes of its
   CRC: the card only ever treats the bytes of one of these alike. The CRC of a
   block is the block itself, so that it tells any two blocks apart; that of a
   command, which nothing disturbs, is left out. The number of clocks a card takes to
   power up is a choice (Ready). *)
EXTENDS Naturals, Sequences

CONSTANTS NSECTORS,   \* m_devblocks: the 512 byte blocks of the card
          BLKWORDS,   \* words of a block
          RSPLEN,     \* SDSPI_RSPLEN: bytes the response buffer sends
          BLKDLY      \* bytes between a response and its block

ASSUME CardAssumption == NSECTORS \in Nat /\ BLKWORDS \in Nat \ {0, 1} /\ RSPLEN \in Nat \ {0} /\ BLKDLY \in Nat

Byte(b)    == [k |-> "byte", v |-> <<b>>]
Word(w)    == [k |-> "word", v |-> <<w>>]
CRC(ws)    == [k |-> "crc", v |-> ws]
Command(n, arg) == [k |-> "cmd", v |-> <<n, arg>>]
Ones       == Byte(255)
StartToken == Byte(254)

\* The content of the card: sector s holds words that no other sector has.
Sector(s)  == [i \in 1..BLKWORDS |-> 10 * (s + 1) + i]
\* The two registers the card sends as blocks of four words, and the part of one
\* that ACMD51 sends.
Csd == <<1>>
Cid == <<2>>
Scr == <<3>>

Response(bytes) == [i \in 1..RSPLEN |-> IF i <= Len(bytes) THEN Byte(bytes[i]) ELSE Ones]
Block(ws) == <<StartToken>> \o [i \in DOMAIN ws |-> Word(ws[i])] \o <<CRC(ws)>>

(* SDSPISIM::SDSPISIM. Nothing initialises m_altcmd_flag; unset remembers how it started. *)
PowerUp(altflag) ==
    [unset |-> altflag, reset_state |-> "POWERUP_RESET", altcmd |-> altflag, powerup |-> "never",
     cmdidx |-> 0, cmd |-> Ones, rspbuf |-> Response(<<>>), rspidx |-> RSPLEN, rspdly |-> 0,
     blkdly |-> 0, blk |-> <<>>, reading |-> FALSE, token |-> FALSE, rx |-> <<>>,
     out |-> Ones, accepted |-> <<>>, failed |-> FALSE]

(* m_powerup_busy reaches zero. *)
Ready(c) == [c EXCEPT !.powerup = "done"]

Deselect(c) == [c EXCEPT !.cmdidx = 0, !.rspidx = 0, !.out = Ones]

\* An assertion of the simulator that does not hold ends the simulation.
Check(c, holds) == [c EXCEPT !.failed = @ \/ ~holds]
Operating(c) == Check(c, c.reset_state = "IN_OPERATION")
Respond(c, bytes, dly) == [c EXCEPT !.rspbuf = Response(bytes), !.rspdly = dly]
SendBlock(c, ws) == [c EXCEPT !.rspbuf = Response(<<0>>), !.blkdly = BLKDLY, !.blk = Block(ws)]
OnlyHCS(arg) == arg \in {0, 2^30}   \* (arg & 0xbfffffff) == 0

\* Mutant: every ACMD41 starts the power up again.
AltCommand_Restart(c, n, arg) ==
    IF n # 41 THEN [c EXCEPT !.blk = Block(Scr), !.out = Byte(0)]
    ELSE [c EXCEPT !.powerup = "busy", !.rspbuf[1] = Byte(1), !.rspdly = 2, !.reset_state = "RCVD_ACMD41"]

\* A command that CMD55 has announced.
AltCommand(c, n, arg) ==
    LET busy == c.powerup # "done" IN
    CASE n = 41 -> [Check(c, OnlyHCS(arg) /\ c.reset_state \in {"RCVD_CMD8", "RCVD_ACMD41", "RESET_COMPLETE"})
                    EXCEPT !.powerup = IF @ = "never" THEN "busy" ELSE @,
                           !.rspbuf[1] = Byte(IF busy THEN 1 ELSE 0), !.rspdly = 2,
                           !.reset_state = IF busy THEN "RCVD_ACMD41" ELSE "RESET_COMPLETE"]
      \* The zero goes out at once, and the response buffer of CMD55, with its own, after it.
      [] n = 51 -> [c EXCEPT !.blk = Block(Scr), !.out = Byte(0)]
      [] OTHER  -> [Check(c, FALSE) EXCEPT !.rspbuf[1] = Byte(4), !.rspdly = 4]

NormalCommand(c, n, arg) ==
    CASE n = 0  -> [Respond(c, <<1>>, 4) EXCEPT !.reset_state = "CMD0_IDLE"]
      [] n = 1  -> Respond(Check(c, OnlyHCS(arg)), <<2>>, 4)
      [] n = 8  -> [Respond(Check(c, arg < 4096 /\ c.reset_state \in {"CMD0_IDLE", "RCVD_CMD8"}),
                            <<0, 0, 0, IF (arg \div 256) % 16 = 1 THEN 1 ELSE 0, arg % 256>>, 4)
                    EXCEPT !.reset_state = "RCVD_CMD8"]
      [] n = 9  -> SendBlock(Operating(c), Csd)
      [] n = 10 -> SendBlock(Operating(c), Cid)
      [] n = 13 -> Respond(Operating(c), <<0, 0>>, 4)
      [] n = 17 -> SendBlock(Check(Operating(c), arg < NSECTORS), Sector(arg))
      [] n = 24 -> [c EXCEPT !.rspbuf = Response(<<>>), !.reading = TRUE, !.token = FALSE, !.out = Byte(0)]
      [] n = 55 -> [Respond(c, <<0>>, 2) EXCEPT !.altcmd = TRUE]
      [] n = 58 -> [Respond(c, <<0, IF c.powerup # "done" THEN 192 ELSE 64, 255, 128, 0>>, 4)
                    EXCEPT !.reset_state = IF @ = "RESET_COMPLETE" THEN "IN_OPERATION" ELSE @]
      [] OTHER  -> Respond(Check(c, FALSE), <<4>>, 4)

\* The byte after a command: its response, and its block, start from here.
Process(c) ==
    LET n   == c.cmd.v[1]
        arg == c.cmd.v[2]
        new == [c EXCEPT !.cmdidx = 7, !.rspidx = 0, !.blkdly = 0, !.blk = <<>>, !.altcmd = FALSE, !.out = Ones]
    IN IF c.altcmd THEN AltCommand(new, n, arg) ELSE NormalCommand(new, n, arg)

\* A byte of the block that CMD24 waits for. Nothing stores the block in the card.
ReceiveData(c, u) ==
    IF ~c.token THEN [c EXCEPT !.token = (u = StartToken), !.rx = <<>>, !.out = Ones]
    ELSE IF Len(c.rx) < BLKWORDS THEN [c EXCEPT !.rx = Append(@, u), !.out = Ones]
    ELSE LET ws == [i \in DOMAIN c.rx |-> c.rx[i].v[1]]
             ok == u = CRC(ws)
         IN [Check(c, ok) EXCEPT !.reading = FALSE, !.token = FALSE, !.accepted = IF ok THEN ws ELSE @,
                                  !.out = Byte(IF ok THEN 5 ELSE 11)]

\* While the card answers, or has answered, the master has to keep its line high.
Answer(c, u) ==
    LET quiet == Check([c EXCEPT !.out = Ones], u = Ones) IN
    CASE c.rspdly > 0      -> [quiet EXCEPT !.rspdly = @ - 1]
      [] c.rspdly = 0 /\ c.rspidx < RSPLEN -> [quiet EXCEPT !.out = c.rspbuf[c.rspidx + 1], !.rspidx = @ + 1]
      [] c.rspdly = 0 /\ c.rspidx = RSPLEN /\ c.blkdly > 0 -> [quiet EXCEPT !.blkdly = @ - 1]
      [] OTHER -> IF c.blk # <<>> THEN [quiet EXCEPT !.out = Head(c.blk), !.blk = Tail(@)]
                  ELSE quiet

(* operator(), at the end of a unit: what the card sends next is its out. *)
Receive(c, u) ==
    CASE c.reading -> ReceiveData(c, u)
      [] ~c.reading /\ c.cmdidx = 0 -> [Check(c, u.k = "cmd") EXCEPT !.cmd = u, !.cmdidx = 6, !.out = Ones]
      [] ~c.reading /\ c.cmdidx = 6 -> Process(c)
      [] OTHER -> Answer(c, u)

\* The card has nothing more to say to a master that only listens.
Silent(c) == /\ c.out = Ones
             /\ c.reading \/ (c.cmdidx = 7 /\ c.rspdly = 0 /\ c.rspidx = RSPLEN /\ c.blkdly = 0 /\ c.blk = <<>>)
=============================================================================
