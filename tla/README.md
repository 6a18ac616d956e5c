# A verification model of ZipCPU/zbasic

ZBasic is a small computer in an FPGA: the ZipCPU and a debug port are masters of
a Wishbone bus, memories and peripherals are its slaves, and a host computer
reaches the debug port through a serial line with the tools of `sw/host`. This
directory models it in TLA+, clock by clock, checks the model with TLC, and proves
with TLAPS what holds for every size of it.

Two kinds of code meet in it. The hardware is synchronous, and what makes it hard is
not threads but *registers*: a flag is computed a clock before it is used, from
values that another block changes on the same edge; a word may sit in three
registers at once, each stalled separately; an acknowledgement, an error, a
timeout and a reset may meet on one clock. In the modules of the hardware one step is
one rising edge of `i_clk`: a variable is a register (or an input), an operator with a
register's name and `Clock` is the `always` block that drives it, and a
combinational wire is a state function. The software - the tools of the host, the
programs of the board, the simulator - is sequential, and is hard because of what is at the
other end of its line: a device that it cannot see and whose state it infers, a chip that
only takes commands in one order, a user who stops a program half way. In those modules
one step is what the two sides can tell apart: a character, a register access, a command.

## 1. The system

| Part | State | Operations | Hard because | Modules |
|---|---|---|---|---|
| Crossbar `rtl/wbxbar.v` (with `skidbuffer.v`, `addrdecode.v`); twice in `rtl/main.v`: 2 masters and 7 slaves, and 1 and 2 | per master: skid buffer, decoder, grant, index, pending counter, answers, timeout; per slave: grant, index, output register | accept, decode, arbitrate, hand over, answer, abandon, time out | four registers describe one grant; flags run a clock ahead; a master may abandon its cycle, a slave may answer late | `WbXbar`, `WbBus`, `WbSwitch` |
| Debug FIFO `wbubus/wbufifo.v` | memory, two pointers, full and empty flags, output register | write, read, reset | flags and prefetch are worked out a clock ahead | `WbuFifo`, `WbuQueue` |
| Debug bus master `wbubus/wbuexec.v` | a four state machine, address, counters of a vector read, answer word | set address, write, vector read, end of write, bus error, reset | requests, answers and the next codeword overlap | `WbuExec` |
| Debug console `wbubus/wbuconsole.v` | both FIFOs, watchdog, one byte for the serial port | queue, issue, reset | the watchdog resets master and FIFOs between any two steps | `WbuConsole` |
| Output path `wbuidleint`, `wbucompress`, `wbudeword`, `wbucompactlines`, `wbusixchar` | one word or character per stage, idle timer, interrupt request, line length | insert, compress, split, drop newlines, print | independent stalls | `WbuOutput` |
| Host library `sw/host/ttybus.cpp` and the codecs `wbureadcw`, `wbudecompress`, `wbucompress` | believed address, tables of recent words on both ends, its buffer, what it has left to read | read and write of one word or many, idle, error exits | the tables of two programs must stay the same; the host infers the state of the device | `TtyBus`, `TtyDevice`, `DevBus` |
| Streams between board and programs: `sw/host/netuart.cpp` or `sim/verilated/dbluartsim.cpp`, `sw/host/llcomms.cpp` | sockets, line buffers, a character being shifted | accept, read, split, write, close | two streams share one line; programs come and go | `HostLink`, `NetUart`, `DblUartSim` |
| Flash tools `sw/host/zipload.cpp`, `flashdrvr.cpp`, `zipelf.cpp`; `flashsim.cpp` | a buffer of the flash, the mode of chip and controller | compare, erase, program, verify, halt and start the CPU | the CPU and the bus read the same flash; a run may be killed anywhere | `ZipLoad`, `FlashDrvr`, `FlashSim`, `Elf` |
| SD card: `sw/board/sdtest.c`, `rtl/sdspi`, `sim/verilated/sdspisim.cpp` | command, FIFOs, error and CRC bits, watchdog; the card's state | initialise, read and write a sector | the card takes commands in one order; it may be pulled out | `SdTest`, `SdCard` |
| Simulator `automaster_tb.cpp`, `main_tb.cpp`; start-up `sw/zlib/crt0.c`, `rtl/cpu/wbdmac.v`, `udiv.c`, `umod.c` | memory, CPU reset and halt, the DMA engine | load, start, boot, copy, exit | a reset in the middle of a transfer; the exit code is one clock late | `SimRun`, `Crt0`, `WbDmac`, `ZDivide` |
| Debugger `zipdbg.cpp`, `zipstate.cpp`; debug port of `zipsystem.v`, halt and step of `zipcpu.v` | registers shown, cursor; command register, pipeline | read all, step, run, edit, reset | the CPU runs on between two reads | `ZipDbg`, `ZipPort` |
| ZipSystem's interrupt controllers, timers, jiffies, counters, watchdogs | control and interrupt registers | bus accesses, ticks | an event meets the access that clears it | - |
| CPU memory and fetch units, pipeline, decoder, ALU, divider | lines, tags, queues; pipeline registers | load, store, fetch, clear; issue, stall, branch | clears and errors in the middle of a line; every stage stalls for its own reasons | - |
| Logic analyser, real time clock, GPIO, UART registers, other board programs and tools | their own registers | bus accesses | wrapping counters | - |

They are one chain. A program on the host calls the library; its characters go through
a socket and the shared line to the console multiplexer, the FIFO, the bus master, the
crossbar and a slave, and the answers come back through the FIFO and the output path. The
chain is cut where its parts meet, and what one side assumes of the other is what the
other's module shows: `WbuConsole` takes its FIFOs as the queues that `FifoIsAQueue` proves
`wbufifo.v` to be; `TtyDevice` runs a codeword as `WbuExec` does clock by clock, behind the gate and the
watchdog of `WbuConsole`; `WbDmac` meets a bus that answers in order, as `WbSwitch` says. One joint does not hold: `ZipLoad` and `ZipDbg` make single accesses in
order as `devbus.h` promises them, and over the debug port as it is in `rtl` every write is followed by the
watchdog's reset, which a program is told as a bus error (section 3). They are models of the tools over a
port that keeps the promise.

`PROJECT.json` lists every part with its files, whether it is modelled, and what
is left out of it.

## 2. Modules

| Module | What it is |
|---|---|
| `WbXbar` | the crossbar, every register of the double buffered build, inputs arbitrary |
| `WbSwitch` | abstract: what a switch promises - in order, once, to the slave addressed, one slave at a time |
| `WbBus`, `WbBusLive` | `WbXbar` between masters and slaves that keep the rules of the bus; the properties; the mapping onto `WbSwitch`; the same with fairness |
| `MCWbBus`, `MCWbBusLive` | address maps and slave latencies for TLC |
| `WbBusProofs` | proofs about `WbXbar`, and about `WbBus` |
| `WbuQueue` | abstract: a bounded queue that may be emptied |
| `WbuFifo` | the FIFO of the debug bus, its mapping onto `WbuQueue` |
| `WbuExec` | the bus master of the debug port, with the slave behind it |
| `WbuExecBus`, `WbuExecProofs` | `WbuExec` fed as its code expects, and what the host works out from it; proofs |
| `WbuConsole`, `WbuConsoleProofs` | `WbuExec` between two FIFOs, with the watchdog, driven by the host's window; proofs about both, the FIFOs and what is between them |
| `MCConsole` | the console and, beside it, one FIFO clock by clock, for TLC |
| `WbuOutput`, `WbuOutputProofs` | the stages behind the answer FIFO; proofs about them, and about `NetUart` |
| `DevBus` | abstract: what `devbus.h` promises a program |
| `TtyBus` | the host library, a character at a time |
| `TtyDevice` | the debug port as the library sees it: codes, tables, bus, answers |
| `TtyLink`, `MCTtyLink` | both, and the mapping onto `DevBus`; calls and addresses for TLC |
| `HostLink` | the two streams, the programs at the sockets and the board's characters |
| `NetUart`, `DblUartSim`, `MCHostLink` | the daemon; the simulated line, bit by bit; either of them below `HostLink` |
| `Elf` | the sections that `elfread` makes of a file |
| `FlashSim`, `FlashDrvr`, `ZipLoad`, `MCZipLoad` | the simulated chip; the driver; the loader; files and chips for TLC |
| `ZipLoadProofs` | proofs about the three |
| `SdCard`, `SdTest`, `SdTestProofs` | the simulated card; the board's test with the controller; proofs |
| `WbDmac` | the DMA engine, clock by clock, with the memory it copies in |
| `ZDivide` | the divisions of the C library |
| `Crt0` | the start-up code, `main`, `_exit`, and what each instruction does |
| `SimRun`, `MCSimRun` | the simulator around them; programs for TLC |
| `SimRunProofs` | proofs about the four |
| `ZipPort` | the debug port of the ZipSystem and what it sees of the CPU |
| `ZipDbg`, `ZipDbgProofs` | the debugger and `zipstate`; proofs |

**Crossbar.** A bus request is one value of `Request`; the decoder is the function
`SlaveOf`, whose value `None` is the code's extra "no slave" channel. `mindex`
and `sindex` have no initial value in the code and start anywhere. `WbBus` adds a master
that holds a stalled request, drops its cycle after an error and may abandon it at
any time, and two kinds of slave: one that stalls and answers when it likes, and
the fixed latency slaves of `main.v` and `wbconsole.v`, which acknowledge one or
two clocks after the strobe even if the cycle has ended in between.

**Debug port.** `WbuExec` models `wbuexec.v` block by block. An answer carries
the address it was read from, so that "the host is told the right word" can be
stated. In `WbuConsole` the FIFOs are queues with the one clock of delay that
`HeldStep` shows `wbufifo.v` to have; the host's side of the model is
`ttybus.cpp`: at most `READAHEAD + READBLOCK` words unread, an address only sent
when none is, a burst of writes followed by the end of write that `wbureadcw.v`
makes of a newline. A codeword is handed over only to a bus master that is not busy (`fifo_in_stb`), so a
write waits for its successor until the watchdog ends it, and one that failed, its cycle closed, waits in the
flush state for ever: both are states of the model.

**Output path.** Compression is abstract here: an answer becomes one to `LongWord`
characters, named by their codeword and their place in it.

**Host library.** A character is its six bits. A step of `TtyBus` is a run of its code up to
the next character it waits for; `HostStep` is one such step of whatever call is
under way. `TtyDevice` has what lies between two codewords of `WbuConsole`. `Take` decodes the next one, so that
the table of written values learns it, and runs it if the bus master is free; it is lost otherwise. `burst` says
why it may not be free: `"read"`, `"write"` (from the first write until `Watchdog` fires) or `"flush"` (a write that
failed, for ever). `Watchdog` empties the command and the answer FIFO, and says so with codeword 3. Answers
wait in `answers` until `Send` compresses them; only those can be thrown away. Where the clock decides - how far a
read had come when it met an error, when the watchdog fires, whether the search of the table had the time to find
a word - it is a choice. Every slave answers. `trouble` in `TtyLink` records what has gone wrong: a `"reset"`, or
`"more"`, a bus error or a program that came while something was under way. A program that begins when nothing is
under way starts with neither. Words and addresses have thirty bits, the five characters they are sent in.

**Streams.** The characters of a stream are numbered, so that loss and order show; the
odd ones are newlines. A pass of netuart's loop is one step, in which it finds any of what is there.
The simulated line is bit by bit: `tick` of `dbluartsim.cpp` against a board that sends
and samples by the same number of clocks. `MCHostLink` has both, and asks the same of them.

**Flash.** A byte is the set of its bits that are one. The wires carry pairs: a command, a
digit of an address, or data. The driver's next accesses are the queue `todo`, so
that a kill may come between any two. The word left in the stack where
`len` of `flashdrvr.cpp:493` is read before it is set is a choice from `UninitLen`.

**SD card.** The program is the list of its register accesses, what it prints left
out. A transfer is in units of a command, a byte, a word or a CRC. The CRC of a
block is the block itself, so that it tells any two apart.

**Simulation.** A program is the sequence of the instructions of `crt0.c` and `main` that touch the
DMA engine, the interrupt controller or memory; the engine and the bus in between
move by clocks. Of a file what counts is where its words go.

**Debugger.** There is one register of each kind that the port treats apart: a general one of the
supervisor's, both flag words and program counters, the interrupt controller (its enables), the watchdog, and a
counter of each of the two pages. A word has three bits, one for each thing that a register may or may not keep:
`HIGH` is kept by all, `MID` is the half of a compressed word that a user's program counter has, `LOW` is what a program counter
and the watchdog drop and what tells the interrupt controller to set and not to clear; `Kept` says what each holds of
a word written to it. An instruction may be the first half of a compressed pair (`alu_phase`, with `OPT_CIS`), and a
halt or a step lets the second half out. An access of the host takes thousands
of clocks: of the CPU's clocks only the ones an access decides on - the step - are steps. Left out are the pending bits
of the interrupt controllers, the second of them, the bus error register, the timers and the jiffies, which change or act
by themselves, and the counters of stalls.

## 3. Runs

Every run holds but `zip_pages`, which shows a bug.

| Run | Question | Properties |
|---|---|---|
| `xbar_two_masters` | two masters, a handshaking slave that may fail, a pipelined slave, an address of no slave, cycles abandoned at any time: do the sides of the arbiter agree, is every request handed over once, in order and to its slave, does a late acknowledgement ever reach a later cycle, is the lower master served? | `GrantsAgree` `OutstandingAgree` `NoStaleAnswer` `ImplementsSwitch` `LastMasterServed` |
| `xbar_full` | one master fills counter, output register, decoder and skid buffer at one slow slave, with errors, resets and `OPT_TIMEOUT = 5` | `PendingFlagsAgree` `FullMeansStall` `HungSlaveReported` |
| `exec` | every sequence of codewords, stalls, late answers and errors: is a vector read exactly as long as asked, does the host know where its words come from? | `HostKnowsAddressSet` `ReadsExactly` |
| `console` | reads, writes, failing writes, the watchdog at any moment: does the answer FIFO hold the host's window, is the host told the address after a reset, is no codeword let in before its time? And is the FIFO a queue? | `AnswersFit` `ToldAfterReset` `NoRequestWhilePending` `ImplementsQueue` |
| `output_lines` | four stages, each stalled at will: order, line length, interrupts, draining | `CharsInOrder` `LineFits` `Drains` `InterruptTold` |
| `tty_bus` | is a call of the library what `devbus.h` says, until the watchdog or an error, and again for the next program? Do the tables agree whatever the watchdog throws away, does every call return? | `ImplementsDevBus` `ValuesSurvive` `CallReturns` |
| `host_link` | programs that come, close and are killed on both streams, over netuart and in simulation | `ProgramsGetARun` `BoardGetsInOrder` `CloseReturns` `WrittenArrives` |
| `zip_load` | files loaded over whatever a killed run left: is what is reported as loaded there, does the CPU only run while it can read the flash, does every run end? | `LoadedUnlessShort` `RunsFromFlash` `LoadEnds` |
| `sd_card` | the test with the card pulled out at any moment | `CardAssertionsHold` `ReadIsSector` `WriteIsAccepted` `TestEnds` |
| `sim_run` | a program is loaded, booted by the DMA engine, reset in the middle, met by bus errors, and exits, or is not there when it is to start | `MainSeesImage` `LeavesTheRest` `EndsWithMain` `SimEnds` |
| `zip_debug` | the debugger over a CPU that halts late, in the middle of a pair or never, sleeps, breaks, is interrupted or reset by its watchdog | `ShownIsTrue` `StepsOne` `EditLands` `KeyAnswered` |
| `zip_pages` | does an edit change what is shown in the cell, on either page of counters? No | `EditsWhatIsShown` |

### Where code and comments disagree

Met while modelling. The properties above are stated so that they hold of the code as
it is; what they exclude is told here.

Hardware:

* `wbxbar.v:853`. The decoder is stalled by `m_stb`, which a full counter
  holds low, unless the request is for the channel already granted: a request for
  another slave is then lost, against the assertion of lines 1313-1314. `xbar_full` therefore has
  both addresses at one slave. No slave of `main.v` leaves 63 requests unanswered, so this design
  does not get there. With a power of two `OPT_TIMEOUT` is truncated to zero as it is
  loaded (`wbxbar.v:121`); the run uses 5 for that reason.
* `wbuexec.v:272`. After a bus error in a vector read the device's address has
  moved past the host's, and neither side sends it again (`HostKnowsAddressSet` holds until an error;
  `ImplementsDevBus` until `upset`), though `ttybus.cpp:351-355` hopes such bugs gone.
* `wbuconsole.v:132`. The bus master ends a write only when it sees the next codeword (`wbuexec.v:195-212`),
  and is not shown one while it is busy. So the first write of a burst is done and acknowledged, and nothing
  moves until the watchdog ends the cycle, empties both FIFOs and says 3: the rest of the burst, and what was sent behind
  it, is lost, and the host library throws `BUSERR` (`ttybus.cpp:624-627`). After a bus error in a write the same gate
  leaves the bus master in the flush state with its cycle closed, where the watchdog does not count, until
  the board is reset. `console` has both, and `tty_bus` what they do to a program: `ImplementsDevBus` is the promise until then,
  `CallReturns` that a program whose write or read the watchdog cut short gets its error. A program that begins after the
  error was told finds the table of addresses and words sound. What cannot be promised after a failed write is
  that anything returns (`trouble = "more"`).
* `wbusixchar.v:62`. The stage loads its strobe and its byte under different
  conditions and gives the port the same byte again once a second one waits. It is the one stage
  of the output path that is not modelled.
* While an interrupt line stays up, `wbuidleint.v` sends idle words on
  every second clock and announces the interrupt again when it falls.
* `sdspi`: a CRC error of a block (0x10 of the status) is not part of the error bit that `sdtest.c`
  looks at, so `ReadIsSector` asks for both; `READAUX` clears `r_fifo_id`, so the last comparison of `sdtest.c`
  always fails; the block length is not set from `SETAUX`, so the 16 byte blocks of
  CMD9 and CMD10 fail their CRC.
* `zipcpu.v`: `w_switch_to_interrupt` is not gated by the halt, so
  an interrupt takes a halted CPU out of user mode and the mode shown is stale. (A halt cannot meet a bus lock: `bus_lock`
  is generated only without `OPT_LOCK`, line 1628, and then `op_lock` is 0, lines 1096-1099. What can keep a halted CPU
  from resting is a load that is never answered.)

Host:

* `ttybus.cpp:486`. `readz` of eight words is coded 0x2e, the end of a burst of writes, and
  is never answered. The calls of `tty_bus` do not include it.
* `ttybus.cpp:138-150`. An invalid character is dropped by moving the wrong pointer: what
  follows it is taken from the wrong place. `readidle` reads twice a turn and drops every second
  character; backward differences of addresses are never used, the difference being unsigned.
* `flashdrvr.cpp:493`. `len` is worked out from itself: pages are programmed whole or by
  one byte, depending on the stack. `LoadedUnlessShort` excludes the bytes this skips. Erasing a
  sector also loses what lies in it outside of the buffer.
* `flashdrvr.cpp:463-477`. The comparison of a sector reads whole words: what is left of the last one is
  compared with whatever was in the buffer. A file that ends within a word, with that end alone in its page,
  is reported as loaded without the page ever being looked at. `LoadedUnlessShort` excludes the bytes not read.
* `zipelf.cpp:255`. An empty program header before a full one moves the mark that ends the
  list onto the full one: `zipload` reports success without having loaded it.
* `netuart.cpp` ends on any write error, though its comments say the socket is just closed
  (lines 438-442, 450-454); a line typed in part stays for the next client.
* `zipdbg.cpp:529`. With the user's counters shown, an edit writes the
  supervisor's: `zip_pages` shows it, `EditLands` excludes that page.
* `zipload.cpp:287-293`. A section of block memory is written in whole words: up to three bytes of a neighbour that was loaded
  before are replaced by what follows the section in the file's buffer, and the comparison does not look at
  them. `LoadedUnlessShort` counts the words of a later section whole. A section that starts inside a word is refused by
  the library, and the tool ends with a bus error.

Simulation and board:

* `sdspisim.cpp` leaves `m_altcmd_flag` unset (`CardAssertionsHold` excludes the start in which it is true),
  and never stores a written block. `sdtest.c:135` waits for ever when the card is pulled there.
* `automaster_tb.cpp` says it starts from the entry of the file, but the reset counter of
  `zipsystem.v` puts the CPU back to `RESET_ADDRESS`. `MAINTB::load` indexes words of block memory with
  octets (`main_tb.cpp:386`), which no file with its sections at the start of that memory shows. A break ends the simulator with success.
* `crt0.c` never looks at the DMA engine's error bit. The kernel, `main` and the division are part of the image that
  is copied (`board.ld:83-89`), so after a bus error the CPU may execute what is not there. Where the image is not
  `Whole` when `main` is to start, the model ends (`Astray`): the CPU may do anything. `MainSeesImage` is about boots without an error,
  `EndsWithMain` about programs that are there, `SimEnds` then only says that the bootloader's waits end.

### Bounds

* Crossbar: two masters and two slaves are the smallest in which masters compete, change
  slave, and slaves have different latencies. `MaxPending = 3` is the least for
  which the code's flags are defined, and 7 lets the counter pass through its three flags
  one by one. `MaxOut` bounds what a master leaves unanswered: with two masters, 2 of the first,
  so that it can ask for another slave while it is owed an answer, and 1 of the second;
  9 with one, which is more than the counter and all buffers hold.
* FIFO: four words, so that pointers wrap and every flag is met from both sides.
* Bus master: vector reads of up to 3 words, where `last_ack` and
  `last_read_request` both count down; four addresses, so that they wrap; two
  requests at the slave.
* Console: two words of window, and FIFOs in proportion to those of `main.v`: the
  answer FIFO holds the window and one word. The watchdog counts to 3, longer than
  an answer that comes at once and short enough to meet every state. The host writes only before it has been
  told an address and before the watchdog has fired (`WritesFirst`): a write meets a quiet, a reading and a failing
  bus, and reads follow the reset that ends it. Only writes fail (`MayErr`), since an error in a read sends host and
  device apart, as told above; `exec` has those.
* Output: codewords of up to three characters, so that one has a first, a middle
  and a last; a line of 5 is filled in two of them; an idle timer of one clock puts idle
  words everywhere they can be.
* Library: two calls one after another of any kind, by one program or two (`stops`); the same with newlines and interrupts
  (`noisy`), by one program; and three, a write, a read that learns of its reset, and a read of the
  next program, which has the whole promise again; tables of 3 and 4 for 256 and 1024, so that they are overwritten in one
  call; bursts of 2 for 32 and 1024, so that a call of 3 takes two; near and far references
  (`SHORT`, `REACH`) are both used; addresses reached by a difference, by three
  digits and by five; one newline or interrupt between any two answers.
* Streams: two characters from the board, one to it on each stream, one program on each;
  three clocks to a bit, the least for which the receiver works; two data bits, of which
  one is the stream; a buffer of two, so that it fills.
* Flash: two sectors of two pages of two words of two one-bit bytes, two runs; one file
  crosses a page, one a sector, one ends within a word, one does so alone in its page and has sections over
  one another, one does not fit. Three contents of the flash to start from: erased, one that has bits to be set in
  every page, and one in which only the first page of such a file is seen to differ.
* SD card: the five sectors that the test reads, two words to one; five response bytes and two
  turns of delay for the code's 8 and 60.
* Simulation: four programs booted from flash with 0 to 3 words of image and 0 to 3 of
  BSS, so that transfers are of none, one and more than one block of two words, and one loaded into
  memory; one reset and one bus error at any clock; words of two bytes; divisions of
  three dividends by four divisors, of which one is zero.
* Debugger: one error of the line (`MAXERR`), one turn of waiting (`TRIES`); the cursor is
  placed at the edit.

Deadlock is checked in the runs of the hardware, whose clock never stops. The others end
(`CHECK_DEADLOCK FALSE`) when their programs have.

### Fairness

* Hardware: the clock runs; time passes though nothing changes, which `clk`
  makes a step in `WbBusLive`. What is assumed besides is of the world outside.
  `LastMasterServed`: slaves end a stall and answer, the other master ends its cycles -
  `wbuexec.v` does after each burst or by its watchdog, the CPU between accesses.
  `HungSlaveReported`: nothing of the slave, which is the point.
  `output_lines`: the next stage is ready again and again, as a serial port is, and
  so is a gap between answers (`InterruptTold` only), since the host asks for a
  bounded number of words at a time. `Drains` is conditional on the bus being quiet.
* `tty_bus`: a program that is in a call and has characters to read goes on, the device runs its
  commands, and says so when it has been quiet for long (`wbuidleint.v`).
* `host_link`: netuart is scheduled when poll wakes it, and the clock of the simulation
  runs. Programs need do nothing.
* `zip_load`, `sd_card`: the program goes on, and a transfer or an erase that is under way ends, for
  the chip and the controller are clocked, and the card powers up in the end. Killing and pulling are never required.
* `sim_run`: the clock runs, the bus takes a request and answers it, or fails it, in the end.
* `zip_debug`: the tool goes on, the clock after a step comes, and fetch memory answers;
  that an outstanding load is ever answered is *not* assumed.

## 4. Proofs

`WbBusProofs`, first part: the crossbar alone (any number of masters and slaves, any decoder,
any counter width, arbitrary inputs on every clock):

* `TypeCorrect`: every register keeps its type; the pending counter stays within
  its width, which needs that a request is never sent while the counter is full.
* `GrantsAlwaysAgree`: `grant`, `mgrant`, `mindex`, `sgrant`, `sindex` describe one
  matching of masters and slaves.
* `RegrantAlwaysOneHot`: the indexes that an arbiter ORs together are one index.

The inductive invariant is `TypeOK /\ GrantsAgree /\ FullHeld`. `GrantsAgree` alone
is nearly inductive: what a master is granted and what a slave is taken by are
computed in separate blocks, and the proof follows the code's own argument - at most
one master wins a free slave (`OneWinner`), a slave is opened only while it is free
(`OpensFree`), and a master that keeps its channel keeps it on both sides
(`KeptGrant`). `FullHeld` is what bounds the counter: a full counter belongs to a
master that holds a channel, so the only way to send is the way that looks at
`mfull`.

`WbBusProofs`, second part: with masters and slaves (any number, any decoder, slaves that answer by
handshake or after up to two clocks, and a master that may abandon a cycle on any clock):

* `FlagsAlwaysAgree`: the full, nearly full and empty flags say what the counter holds.
* `NeverStaleAnswer`: an acknowledgement never reaches a later cycle than the one it is of.
* `OutstandingAlwaysAgree`: what a granted master's counter says is outstanding is what is
  on its way to its slave, in it, and on its way back.
* `FullAlwaysStalls`: a master whose counter is full is stalled.
* `SwitchRefinement`: every clock is a step of `WbSwitch` or a stutter.

The last three assume `NoOverflow`: no master has more outstanding than its counter holds, or all
addresses are of one slave. Where neither is so, a full counter does not stall a request for another
slave, and it is dropped (wbxbar.v:853); the first holds of the masters of `main.v` and of
`xbar_two_masters`, the second of `xbar_full`. The invariant follows a request from stage to stage:
`PendingFlagsAgree` in the skid buffer and the output register, `SlaveOK` and `PipeOK` in the slave and
its pipeline, `AnswerOK` on its way back; `Counted` adds the stages up to the counter. No answer is
stale because a slave out of its cycle, or about to be, owes nothing that is live, and what an abandoned cycle has
left in a pipeline of at most two clocks is out before the slave can be opened again.
For the refinement, what `WbSwitch` has queued for
a port is what `SwitchView` finds in the stages, oldest first, never more than three; `PortMove` shows
that a clock moves it on by taking at the tail and handing over at the head.

`WbuConsoleProofs`, second part (a FIFO of any depth of at least four words, any inputs):

* `FlagsAlwaysAgree`: the flags and the pointers agree; `TypeOK /\ FlagsAgree` is inductive.
* `FifoIsAQueue`: every clock is a step of `WbuQueue` or a stutter. `HeldStep` gives the
  fill after a clock, `WordStep` where each word stands then.
* `AlwaysOffersNext`: a FIFO with a word in memory offers one on the next clock.

`WbuExecProofs` (addresses of any width, reads of 1 to 1023 words - `r_acks_needed` has ten
bits, the host asks for at most 520 - and a slave that stalls and answers as it likes, within
`MaxAtSlave` requests):

* `CountersAlwaysAgree`: the inductive invariant. `BusOK` says what holds of the bus in every
  state; `Counting` what holds of a vector read: answered + at the slave + not yet asked for is
  the length asked for, `r_acks_needed` is what is at the slave, `last_ack` and
  `last_read_request` say of the present counters what they were computed to say a clock
  before, and the strobe is up just while something is left to ask for. None of these is
  inductive alone: the strobe falls by a flag, the flag follows the counters, and the counter
  does not wrap because of the length.
* `AlwaysReadsExactly`: hence the clock on which a read ends without an error is the one that
  brings its last word.
* `HostAlwaysKnowsAddress`: from the first address the host has set, the address it works out from
  the answers is the one of the word it gets. `AddrInv` is a chain of equalities from
  the address of the request on the bus, over those in the slave, to the one the host has been told.

`WbuOutputProofs` (codewords and lines of any length, any inputs):

* `LineAlwaysFits`: a newline is let through only where a codeword ends, so a line goes on
  past `TRIGGER` until the present codeword is sent. The invariant `LineOK` says that the line
  is beyond `TRIGGER` by at most the characters taken of that codeword (`Before`), and
  `DewordOK` that these are at most `LongWord`.
* `CharsAlwaysInOrder`: what a stage holds is a part of one row of words, `Front` of what has been
  sent and `Behind` of what waits; each stage hands its first to the next one's end, so that
  the concatenation of the stages does not change but at its two ends.

In the same module, for `NetSpec`, the daemon with the board and the programs, however many
of them come and whatever they and the board write:

* `ProgramsAlwaysGetARun`: what is on the serial line of a stream are the last characters the board has sent
  of it, each in its place (`TtyOK`), so what a program has got ends just before them and has no gap (`GotOK`);
  one that is not connected has got nothing.
* `BoardAlwaysGetsInOrder`: what the board has got, followed by what is in the socket, is in order, and as long
  as no program was killed it is all that was written (`BoardOK`).

`WbuConsoleProofs` (FIFOs, windows and reads of any size):

* `AlwaysNonePending`: whatever the commands, and with writes, bus errors and resets: a codeword reaches the bus master
  only when nothing of the one before it is on the bus. The invariant `Sound` says that a master that is not idle is busy, and
  that one that is idle or in its flush state has its cycle closed, its strobe down and nothing in a slave; for
  the end of a read that takes the counters (`CountsOK`), whose flags must say exactly when nothing is left to ask for.
* `AlwaysToldAfterReset`: whatever the watchdog threw away, no word reaches the host before the
  address it was read from does.
* `AnswersAlwaysFit`: until the watchdog fires for the first time the answer FIFO takes all it is given.

The last two have the hypotheses `NeverErr` (no bus error: section 3 says what one does to the answers) and `ReadsOnly`
(no writes); the run `console` has writes too, failing ones among them. `ConsoleAssumption`
says that the window is smaller than the answer FIFO, as `READAHEAD`, `READBLOCK` and `LGOUTPUT_FIFO`
are. For the second, `AskedInOrder` says that the
requests in the slave are for one address after another, `OwedInOrder` that each answer on its way to the
host is where the one before it leaves the host, and `EndsAt` joins the two: all that is owed leaves the
host at the address of the oldest request. For the third, `WindowKept` is an account: the words in the answer FIFO,
those on their way to it and those that commands still ask for are what the host counts as
unread, at most the window; the one word that answers an address is in front of them (`AddressesFirst`),
which is why the window is a word less than the FIFO. The number of words that a queue of commands asks for is a
running total that the invariant has as a witness (`Queued`), since a recursive sum could not be
reasoned about.

`ZipDbgProofs` (any number of polls; a CPU that does what it likes until it is at rest):

* `AlwaysShowsTruth`, `AlwaysStepsOne`, `EditsAlwaysLand`. A CPU at rest under a halt keeps its
  registers (`RestStays`): all that can happen is an interrupt, which takes it out of user mode. So
  what has been read stays true (`ReadOK`) from the first register, which answers only when the CPU is at
  rest, to the next key. `StepOK` says that after a key the CPU waits for its one step or is halted,
  and needs of `ReadOK` that a CPU whose state is shown is halted, and not between the halves of a pair: the second
  half of one that the step began is issued before the CPU rests, and nothing after it. `EditOK` compares the registers
  with what was shown: the same until the access that writes, and from then on but for one, which has what it keeps
  (`Kept`) of the word typed, and the half word of a user's program counter if the edit starts user mode.

`ZipLoadProofs` (a flash of any geometry, any number of runs, each of which may be killed or
fail between any two bus operations):

* `AlwaysRunsFromFlash`: the CPU runs only while the chip is idle and in quad reads and its
  controller is out of user mode.

  The tool cannot see the state of the chip, and may find it in the middle of any
  command. The invariant follows it through the driver's plans of writes. Some state is common to
  all of them (`Sane`): the chip is never asleep and never in a quad program. From any such state the first eight
  writes of a plan bring it off line (`OfflineSlow`, `OfflineStep`). A plan that waits ends with
  the status register on the wires, so that a wait which returns saw the erase or the program end (`WaitOK`); one that
  returns ends with `place_online`, whose last write is the one that leaves user mode
  (`ReturnOK`). The hard case is a run after a killed one, which finds the port in user mode: all
  its reads return one stale word, and a sector for which that word happened to be all it wants
  would be passed over without a write. `FreshOK` says that until the first write of such a run
  nothing has been decided, and that it cannot end so, because the stale word is not the first
  word of the program.

  `LoadAssumption` says what the last step needs of a file whose sections are valid: it has bytes
  past the first word at `RESET_ADDRESS`, and that word is none of those that the controller returns in user mode,
  which hold its state in bits 16 to 8. Programs for this board do, since the CPU starts there. Of any file the
  statement is false: one that has sections for block memory only writes nothing to the flash, so after a
  killed run it starts the CPU with the flash still off line.

* `LoadsUnlessShort`: what a run that ends well had to load is there, in block memory and in flash,
  whatever the flash held and wherever earlier runs were killed.

  A second invariant, `Data`, follows the contents; it is inductive with the first. Up to the place the driver has
  reached (`Reached`) the flash holds what is wanted of it (`DoneOK`). That alone is not inductive: programming only
  clears bits, and a page whose wanted bytes are all ones is passed over without a look. So `AheadOK` says what lies
  ahead. If the sector was read as it is, each byte that is to be erased is erased (`Clean`): it has been compared, or
  a sector erase has been seen to end. If it was read in user mode, as stale words, nothing is known of the flash, but
  then no whole word is to be erased, since a stale word has a byte that is not all ones, and no page is passed over
  (`Dense`). `PendOK` counts the writes of a plan and says what the chip has taken in of command, address and data, so
  that its one change of the array, when it is deselected, is the sector or the rest of the page
  that was decided on. The first write of a plan may also burn what a killed run had left in the chip, anywhere;
  `FreshOK` shows that the run is then at its start, with nothing done. `LenOK` bounds what
  `page_program` does not read back by what its length, worked out from itself, leaves out.

  Block memory is written in whole words, so a section may damage the end of one before it; `Overwritten` leaves
  out the bytes that a later section's words take (`Taken`), and no others: each of a section's own bytes is there when its words
  are written, whatever stands behind them.

  `LoadAssumption` has for this: words divide pages, the reset address and the size of block memory, `write` is called with `verify`
  (`zipload.cpp:325`), what the flash first holds is bytes, and a stale word has a byte that is not all ones.

  The proof first failed, and TLC then found why: for a file that ends in an odd byte alone in its
  page the property was false, because the model, and the property with it, took only `page_program` to leave bytes
  unread, not the comparison before it. `NextSector` now counts them too, and the property leaves out bytes
  of a section that a later section has as well. The run has a file with both.

`SdTestProofs` (sectors and responses of any length, any delays of the card, which may be pulled out
between any two units of a transfer; the test as it is written):

* `ReadsAreSectors`: a read with a good status left the sector asked for in the FIFO asked for.
* `WritesAreAccepted`: a write without an error was taken by the card, whole.

  Card and controller know each other only by the units on the wires, and the invariant says
  how they stand to each other: `Deselected`, no transfer is on and the next unit starts a command; `Reading`, the
  card has yet to look at the command or answers it, and what it sends is of the
  sector asked for; `Writes`, the card has just those words of the FIFO that have been sent. When the card is pulled
  the wires are all ones, and nothing of this is known any more. It is not needed: all ones is no CRC and no
  response to a block (`Bytes`, `NoToken`), and the CRC of the one sector that was on the wires is the CRC of the words in
  the FIFO only if these are its words (`OnlyCRC`; the model's CRC tells any two blocks apart), which `HasSector` keeps until the next command. The second
  theorem needs the program too, since what was taken is what it had put in the FIFO: `QuietOK`,
  `FillOK` and `WrittenOK` follow it from the wait before the FIFOs are filled to the write. For that, the first
  lemmas find these accesses in `main` (`BeforeIs`, `WritingIs`, `MainIs`), whose length depends on that of a sector.

* `CardIsContent`: no assertion of the simulated card fails, wherever the card is pulled.

  What keeps the card content is the order of the commands, which is in the program. So each place of the
  program gets a label: the stage to which the program has brought the card (`Stages`), what the data register
  holds, whether a command may be running. `Flow` says which labels may stand on both sides of an access, and
  `Goes` that a piece of program can be labelled from one to the other; pieces are put together by `GoesOn`, loops by
  `GoesBack`, skips by `GoesOver`, and the whole program has a labelling, `Lab` (`LabFits`). The invariant `Safe` is then one
  line: the card came up with its flag set, or nothing has failed and, until it is pulled, `Labelled` is true of the card,
  the controller and the label of the current access. Its steps are one unit each way: the card looks at the command it waits for
  (`NormalFollowed`, `AltFollowed`), answers while the controller listens (`AnswerGoes`), or takes a whole sector
  (`SectorGoes`, over `Writes`). The one stage that the program learns from the card, the answer to ACMD41, needs
  that the byte it tests is the one the card sent (`PollGoes`). A card that was pulled is never powered again.

  `TestAssumption` says that the card has the sectors 0 to 4, which the test reads: the card
  asserts that a sector exists (`sdspisim.cpp:377`).

`SimRunProofs` (any programs, block size of the engine, latency of the bus and exit codes; the bus stalls, answers
with errors and is granted as it likes; the port resets the CPU at any clock, any number of times):

* `MainAlwaysSeesImage`: when `main` starts, the image of its program and a BSS of zeros are in memory, unless a
  bus error ended a transfer.
* `AlwaysLeavesTheRest`: no clock of a run writes beyond image and BSS, but for the bootloader's variable.

  The invariant has three parts. `RomOK` is what nothing writes to: the image in the flash, or, for a
  program that the simulator put in block memory, the image there. `RecordsOK` are the types. `ProgramOK` says where the CPU is:
  it is leaving, with the engine at rest, or it is at one of the instructions of the bootloader, and each has a
  label (`Labels`) with what is known there (`At`): which registers of the engine hold what, `LenIs` and the like counting the one
  access that may be under way, and how much of memory is as it should be. `Flow` shows that the labels fit the program, whichever of
  its parts it has. On the two labels that wait for the engine, `Moving` says how it stands between
  the block in its memory, the requests on the bus and the words written: `Reads`, `HasBlock`, `WritesBlock`, by state.

  A reset cuts a transfer short anywhere. What is on the bus may still be performed, a part of it or all; what was written
  is then written over, since the bootloader starts over, and `Reached` says it is never beyond the image
  and the BSS. That needs the flags to be right, which the engine computes a clock ahead (`wbdmac.v:418-485`), from
  counters that are about to change. They are right only because an answer takes two clocks: with fewer, the
  engine takes the answer before the last for the last (`wbdmac.v:474`) and ends the cycle with a word still on
  its way, which is then never written. `DmacAssumption` says so, and so it is on this board, where a request passes
  the registers of the crossbar and of the memory. With one clock TLC finds `MainSeesImage` violated.

  `SimAssumption` says of a program what the linker sees to: image, BSS and the bootloader's variable are apart, the
  copy in flash is behind them, and no other section of the file is where the image is loaded.

Twenty-six of the statements proved here are properties that the runs check on small instances, of
the FIFO, the crossbar and its bus, the debug port's bus master, console and output path, `netuart`, the debugger,
the loader, the SD card and the simulator with its DMA engine.
The others - types, the one-hot index, the flags, when a word is offered, the counters - are
left to the proofs, which hold for every size.

A leaf that takes the provers more than a second or two names the one that finds it and allows it a minute or more (`SMTT`, `ZenonT`),
so that the proofs check on a slower or busy machine too.

What the proofs assume of the constants is named in the modules (`ExecAssumption`,
`OutputAssumption` and so on), and TLC evaluates it in the runs.

Only model-checked: the host library and its refinement of `DevBus`, the two streams on the simulated line (`DblUartSim`),
and that the simulator ends with what `main` returned (`EndsWithMain`). The line and its buffers are computed by
recursion (`FoldLeft`), which is beyond the prover; so is what the library's division returns (`ZDivide`), on which
`EndsWithMain` rests. All liveness is only model-checked too.

## 5. Not modelled, and the plan

Not to be modelled: the bit timing of serial lines and flash pins, the
instruction decoder's and the disassembler's tables, displays, dumps and traces, generated
files, and the programs of the board that test or exercise the CPU (`cputest.c`, `dhrystone`).

Left, in order:

1. A proof of `EndsWithMain` up to what a division returns.
2. ZipSystem peripherals: `icontrol`, `ziptimer`, `zipjiffies` and the watchdogs with the
   CPU's accesses; no interrupt lost, no alarm missed.
3. `ufifo` and `wbconsole`, against `WbuQueue`; `wbusixchar`.
4. CPU memory units against one abstract memory, fetch units against one abstract
   instruction stream; then the pipeline's control behind `ZipPort`.
5. Logic analyser, clock and date; the flash controller's bus side.
6. `wbregs`, `dumpflash`, the memory and stack pages of `zipdbg`; `uartsim` and the pipes of `dblpipecmdr`.
