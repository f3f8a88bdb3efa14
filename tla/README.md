# A TLA+ model of the ssdma engine and its tools

`ssdma` is a two-channel scatter/gather DMA engine in Verilog (`src/rtl/verilog`), with
its benches and a PCI test program (`src/bench/verilog`), and with the programs and the
USB firmware that load and serve its boards (`src/software`). This directory holds TLA+
modules translated from that source, TLC configurations that check them, and proofs that
TLAPS checks. Line numbers below are those of the sources.

## 1. Inventory

| Component | Source | State it keeps | What it does |
|---|---|---|---|
| Job controller | `ctrl.v` | `state` (13 states), burst registers, `dar`, `cdar`, `next_desc`, `ctl_adr0/1`, `dc0/1`, `append_mode`, clear pulses, `wb_int_reg`, `m_enable0/1`, `m_reset0/1` | reads chains of job descriptors, hands them to the two channels in turn, waits for them, writes results, raises the interrupt |
| Register slave | `wbm.v` | `enable`, `append`, `ndar`, `ndar_dirty`, `wb_int_clear`, `wb_int_enable`, `sys_rst_reg`, SPI registers | the host's window: CCR, CSR, NDAR, read-only state |
| Walkers (four) | `ss_sg.v` | `state` (8 states), list descriptor, burst address, `io`, `cnt`, `c_done` | walk a list of buffers and move words between memory and a FIFO in bursts |
| Channel (two) | `ch.v`, `ch0.v`, `ch1.v` | two FIFOs, `ocnt` | joins source walker, module and destination walker; derives start, stop, end |
| FIFO | `fifo_control.v`, `synchronizer_flop.v`, `tpram.v` | read and write addresses, gray pipelines, synchronizers, RAM | a ring with one place kept free, two clocks allowed |
| Modules | `mod.v`, `copy.v`, `fill.v`, `read.v`, `codeout.v`, `rbhash.v` | a four-state machine each | move, produce or swallow words |
| Memory bus | `arbiter.v`, `mixer.v`, `mi*.v`, `mo*.v` | `gnt`, `gnt_r` | round-robin grant; requests out, answers back |
| Top | `ss_adma.v` | none | wiring and `sys_rst` |
| Host programs | `ben_adma.v` tasks, `pci_test.c` | descriptors in memory, what they know to be over | queue, append, acknowledge, poll |
| Board level | `top.v`, `bridge.v`, `clock.v`, `spi_*.v` | none of its own | pins, PCI core, clocks |
| Memory allocator | `TLSF-2.4/src/tlsf.c` | block headers with boundary tags, segregated free lists, two levels of bitmaps, a list of areas | the heap of `pci_test.c`, from which its descriptors and buffers come |
| Flash programs on PCI | `pci_spi.c`, `v4_pci_spi.c`, `bit_read.c` | the levels and enables of four pins | erase, write and read the configuration flash of two kinds of board, bit by bit |
| USB programs | `fw.c`, `fpga.c`, `spi.c`, `24xx.c`, `i2c.c` | a saved port image, the data read | FPGA, FIFO, log, flash and EEPROM through the firmware |
| USB firmware | `fpga_control_fw.c`, `fw.h`, `hw.h` | interrupt flags, `ep1in_pending` .. `ep6in_pending`, `out3data`, port levels, `FPGA_STATUS` | one interrupt routine for all endpoints, and a main loop that copies data to the FPGA |
| USB download | `ezusb.c`, `getopt.c` | the list of blocks; `optind`, `nextchar`, `first_nonopt`, `last_nonopt` | the options of `fw`, and the firmware's way into the controller |

**How they interact.** The host builds descriptors in memory and writes NDAR or sets
`append` through the slave. The controller fetches a descriptor in four beats; the same
beats wake the two walkers of a channel (`ss_we`, `ctrl.v:258`). The source walker fills
the source FIFO, the module moves words to the destination FIFO, the destination walker
empties it. When the destination walker ends (`c_done`), the controller writes the
result block, resets the channel in TR0/TR1 (`ss_done`, then `m_reset` a clock later),
and goes on to the other channel, the next descriptor, or IDLE. Controller and walkers
are five masters on one memory bus. The tools are a second system: a program on the host
sends packets, the interrupt routine of the firmware serves one endpoint each time it is
entered, in a fixed order, and drives flash, FPGA and EEPROM. An answer for which the buffer is
not free is put off until the buffer interrupts. Packets of endpoint 3 are only counted by the
interrupt routine; the main loop copies them and arms the buffer again.

**Hard behaviour, and what makes each part correct.**

* Controller and slave: two clears (`append_clear`, `ndar_dirty_clear`) race with host
  writes; `c_done` lags the walker and outlives its reset; two jobs are in flight;
  the chain is extended while it is read; the host may reset at any time. Correct means:
  jobs start and finish once, in order; a result belongs to the oldest job; no done flag
  is stale; nothing handed over is lost; busy and the interrupt tell the truth.
* Walkers and channel: bursts are broken off by wait states, retries and FIFO flags that
  are late, and taken up again; errors stop a walker for good; the end of a list travels
  as a 65th data bit through RAMs that are never cleared. Correct means: every word once,
  in order, inside the buffers, and a job ends exactly when its words are in place.
* FIFO: each side sees the other's pointer two clocks late. Correct means: never over- or
  underflow, and flags that catch up.
* Arbiter: the request path is a clock later than the answer path. Correct means: an
  answer reaches the master whose request is on the bus; nobody starves.
* Allocator: every free merges with up to two neighbours and moves blocks between lists,
  sizes are rounded in two directions. Correct means: the blocks tile the areas, tags, lists and
  bitmaps agree with them after any sequence of calls, no extent overlaps another.
* Flash programs: a chip that is busy for any time, a program killed anywhere it may be,
  two programs that leave the pins differently. Correct means: the flash holds the image.
* USB programs and firmware: interrupts against main loop, answers put off, defective boards, a
  program that follows one that was killed. Correct means: what a program reads, writes or
  reports is true of the chip.
* Download: options and operands in any order, messages that fail or are repeated, a kill
  between two blocks. Correct means: the right file, and never half a program running.

## 2. Modules

```
HostBus <- Wbm, Driver         Transfer (abstract)        Arbiter <- ArbiterProofs
Ctrl, Wbm, SgPort, Driver      SsSg, Mod, FifoControl
        \   |   /                      \  |  /            FifoControl <- FifoClocks
         Engine  => JobQueue            Channel => Transfer     <- FifoProofs
           |        (abstract)          /     \    (abstract)
EngineTypes <- EngineProofs     MCChannel     ChannelProofs
               <- EngineOrder                    <- ChannelData

Tlsf => Allocator (abstract)      SerialFlash, BitFile <- PciSpi <- V4PciSpi <- MCPciSpi
MCTlsf                            SerialFlash, Eeprom <- Firmware <- UsbTools <- MCUsbTools
                                  Getopt, Ezusb, Download <- FwBoot <- MCFwBoot
                                                 Download <- DownloadProofs
```

| Module | Models | Correspondence |
|---|---|---|
| `Ctrl` | `ctrl.v` | one action per state of the machine; every clocked register under its own name, the channel pairs as functions. A step is one clock edge |
| `Wbm`, `HostBus` | `wbm.v` | the writes of CCR, CSR and NDAR with their priorities over the controller's clears; the accesses a host makes, as records |
| `SgPort` | `ss_sg.v` as the controller sees it | `D_REQ`, `B_REQ`, `B_WAIT`, `NEXT` are one state `RUN` of any duration; the load protocol, `ss_done` and the lag of `c_done` are exact |
| `Driver` | `ben_adma.v` tasks, `pci_test.c` | queue, append, acknowledge, poll, reset; descriptors are built before they are handed over, appended jobs are linked while the engine runs |
| `Engine` | `ss_adma.v` without the data path | all of the above in one step per clock (`Tick`), and stores of the host between edges (`Store`). `started` and `finished` are history variables |
| `JobQueue` | (abstract) | what the engine promises: jobs start in order, two at most in flight, finish in order |
| `SsSg` | `ss_sg.v` | the whole walker as the function from registers and pins to registers (`SgClock`) |
| `FifoControl` | `fifo_control.v` | pointers as positions; the gray pipelines are the fixed offsets at which the flags compare them. `full_out` is `Inc(wptr) = rview` because the source compares the address before `waddr` with the one two before `raddr`. `rsync`, `rview`, `wsync`, `wview` are the two synchronizer stages of each direction |
| `FifoClocks` | a FIFO with two free-running clocks | any interleaving of edges, both together included, any enables, reset at any time |
| `Mod` | `copy.v`, `fill.v` | the two machines and their output pins |
| `Channel` | `ch.v` with its walkers and module | one action per kind of answer (`AckClock`, `WaitClock`, `ErrClock`), each a whole clock of both sides. The controller is reduced to the phases it takes a channel through, the bus to an owner and an answer |
| `Transfer` | (abstract) | what a channel promises: words delivered one by one in order, and the job ends when all are |
| `Arbiter` | `arbiter.v`, `mo.v`, `mi.v` | N masters that come and go, all of them let go by `sys_rst` in any clock; `gnt` moves, `gnt_r` follows, neither of them reset |
| `Tlsf` | `tlsf.c` | headers as a function from addresses, the links of a free block included; one action for each public function, one operator for each static one. Bit scans are maxima and minima of sets |
| `Allocator` | (abstract) | what an allocator promises: extents that never overlap, one changed by a call |
| `SerialFlash` | external, commands of `spiflash.h` | an M25P flash at its pins: instruction, address and data bits, page programming, status, busy for any time |
| `BitFile` | `bit_read.c` | the header of a configuration file: the place of its length, what is taken, and what becomes of a file that is cut off. The result is a set: bytes that were not read may be anything (`StaleBytes`), and it is empty when the search does not end |
| `PciSpi`, `V4PciSpi` | the two flash programs | a program is the sequence of its calls, a call that of its register accesses; a step is one access. `V4PciSpi` has what differs, and the system: one of the programs, a board of either kind, the flash, a kill before any access and restart |
| `Eeprom` | external | a 24Cxx EEPROM behind the controller's I2C port, acknowledging nothing while it writes |
| `Firmware` | `fpga_control_fw.c` | `usb_isr` serves one endpoint a step, in the order of its tests; the main loop takes a packet, copies it, arms the buffer, a step each. The FPGA is its configuration and what was clocked into it |
| `UsbTools` | `spi.c`, `fw.c`, `fpga.c`, `24xx.c`, `i2c.c` | a program is the sequence of its transfers, a transfer is a step; the options of `fw` are a set, looked at one after the other. Sessions of programs one after the other, any of which may be killed |
| `Getopt`, `Ezusb` | `getopt.c`, `ezusb_load_image` | one call as an operator on the record of the static variables; `Meaning` and `Gives` say without permuting or merging what the result should be. A line is data, another kind, or a stub that ends before its data do; the buffer of the line is kept, since a stub is read on into what earlier lines have left |
| `Download` | `ezusb_write_image` | one control message a step, which may fail, done or not done, with -1 (again) or another error (the end) |
| `FwBoot` | `fw.c` with `-b` | options, file, download, kill, next run |

The faulty variants next to some definitions (marked `faulty:`) are what each property is
tried against: with the definition replaced by its variant the property fails.

Data is abstracted to what the properties tell apart: a job word is the set of its bits
that are decoded, a descriptor is named by its address, word *i* of job *j* is the number
`WordOf(j, i)`, a word with bit 64 set is `Marker`. Retries and cycles without an answer are
one case, because the code treats them alike.

## 3. Runs

| Run | Question | Size |
|---|---|---|
| `engine` | Are three jobs, queued in chains or appended at any time, with panicking walkers and resets anywhere, run once and in order (`JobOrder`, a refinement of `JobQueue`)? Are loads, done flags, module enables, results and fetches those of the right job? Is no job lost, unless behind a queue that an append has taken along (`AppendsRun`)? | 960 000 states, 90 s |
| `engine_poll` | Of a host that only queues: is everything over when the engine is quiet (`QuietMeansDone`)? Does a cleared busy mean that all queued jobs are over? Is no completion interrupt lost to an acknowledge that meets it? | 3 600 |
| `engine_live` | Does each of four jobs handed over finish, unless an append has taken its queue along (`AllFinish`)? | 16 700 |
| `fifo_clocks` | Is a FIFO of 8 places safe with two clocks in any relation, and do its flags catch up? | 3 300 |
| `channel` | Do two copy jobs and two fill jobs on one channel, the first longer than both rings, each finding the RAMs as the job before left them, arrive word by word in order with wait states and errors anywhere (`Transfers`), does memory hold nothing else (`WrittenInOrder`), and do the jobs end (`JobsEnd`)? Do bursts and markers fit, does copy never move a word that is not there? | 9 000 |
| `arbiter` | Does each of five masters get the bus, and its own answers, with resets the arbiter is not told of? | 740 |
| `heap` | After any sequence of mallocs, callocs, frees, reallocs and added areas: is the heap consistent, is the search a good fit, does nothing leak, and are the extents apart (`Allocates`, a refinement of `Allocator`)? | 10 800 |
| `pci_spi` | Do both flash programs leave the image in the flash and read what it holds, whatever a program killed at any access has left, also in the middle of an instruction or of a write that is over when the next one has reset the pins, and end? | 338 000, 95 s |
| `usb_tools` | Do the USB programs read, write and report what is true of flash, FPGA, FIFO, log and EEPROM, with boards whose INIT_B or DONE never comes, busy chips, several options of `fw` at once, files that are cut off and kills, and do all sessions end? | 516 000, 55 s |
| `fw_boot` | Do the options mean what they should in every order of up to four arguments, is the image that is sent the file's, and does the processor never run half a program? | 31 600 |
| `ack_append`, `marker_lost` | one disagreement each, section 6 | |

**Bounds.** Three jobs (`NJobs`) are the fewest with which a chain goes once around both
channels (CMD0, CMD1, NEXT1, CMD0) and a job is appended to a chain that is running. The
job words of a run cover a job without a destination, which ends at once, and one that
uses everything. `engine_live` has a fourth: four are the fewest with which an append takes the mark
of a queue along (section 6). `Settle` (3 clocks) is the wait of `wait_job`; it covers the clocks between
the write of CCR and the state leaving IDLE. FIFO depth 8 is the smallest the controller
is written for (`fifo_control.v:165`), hence the one with the least slack; the properties of
the flags and the types of the pointers are proved for every depth. Memory has room for three buffers
(`Bufs`) 16 words apart (`Span`). Lists have up to three buffers of up to 15 words,
longer than the ring and shorter, so each of half full, almost full, full, almost empty and
empty occurs on both sides. The arbiter run has the five masters of the source and bursts of
two answers; its safety is proved for any number. The four jobs of `channel` go copy, fill,
copy, fill, so every kind follows every kind's remains.

The heap has three sizes (below a block, one that splits, one that needs more than half a pool), a
pool of 52 bytes with an alignment of 4 and further areas, one of which is joined; two buffers
are the fewest that have both neighbours in use or free in turn. With two classes per level
each of the branches of insert and search is taken. A flash byte has 3 bits and a page
8 bytes, so that the 10 bytes of the image are a full page and a short one; the search for the
head of the file meets two places that look like it. Three more files have no key, end in
their data, or end in their length. USB packets carry 6 bytes in groups of 3, a log
packet 2, so that a session has full and short packets; `fw -w` writes 10 bytes, a full packet, a short one
and a byte that makes no group. Sessions are of two programs, the second
finding what the first has left. `fw_boot` takes every command line of up to four of eight words
(three with POSIXLY_CORRECT), options in clusters, with and without arguments, unknown ones, `--` and `-`
among them, and the pairs of downloads with faults and one kill; the files have a comment, lines that follow
on each other up to the length a block may have, lines that overlap, a line behind the end,
no end, a short line, which is refused, and a stub of one, which is not.

`CHECK_DEADLOCK FALSE` is used where programs end: in `channel` after the last job (phase
"off"), in `heap` when the program has crashed or stopped, in the tool runs after the last program.

**Fairness.** `Engine`: the clock ticks; a bus that is asked answers in the end; a running
walker ends; a host that has an access to make makes it. The last is needed because TR0
and TR1 are left only on a host access (`ctrl.v:517`). `Channel` and `Arbiter`: the clock
ticks, and a bus that is asked again and again answers; strong, because a walker gives up
a burst that meets wait states (`ss_sg.v:316`) and asks again. `FifoClocks`: both clocks run. Nothing is assumed about
fairness among walkers, modules or masters. `V4PciSpi`: a program that can go on does, and
the flash ends each write in the end. `UsbTools`: interrupts that are raised are served, the main
loop runs, the host goes on, the chips end their writes; nothing is assumed of the FPGA's log.
`FwBoot`: the program goes on until it is killed; no message is assumed ever to succeed.

## 4. Properties

Each is stated in words above its definition. The ones that take several steps of several
actors to break:

* `JobOrder` (`Engine` implements `JobQueue`), `QuietMeansDone`, `AppendsRun`, `AllFinish`;
* `DoneIsFresh`, `LoadsIdleWalker`, `ModuleEnable`, `ResultOwner`, `FetchesJobs`: what
  controller, walkers and memory are allowed to be in at the same time;
* `BusyMeansDone`, `NoMissedCompletion`: what the host may conclude;
* `Transfers` (`Channel` implements `Transfer`), `WrittenInOrder`, `BurstsFit` (with `MarkerTaken`), `CopyInStep`,
  `JobsEnd`;
* `FlagsSafe`, `ViewsOrdered`, `FlagsCatchUp`; `AckIsMine`, `GrantComes`;
* `Consistent` (`Tiled`, `Coalesced`, `Indexed`: blocks, boundary tags, lists and bitmaps agree),
  `GoodFit`, `NoLeak`, `Allocates`;
* `WritesImage` (`HeardWhenReady`: no instruction is sent to a busy flash; `ImageWritten`: erase and write leave the image,
  whatever a killed program had begun, if that is over when the pins are reset), `ReadsBack`, `Ends`;
* `FlashHolds`; `ReadsTruly` (`ReadsBack`, `ComparesTruly`, `NothingLeft`); `LoadsTruly` (`DoneIsTrue`,
  `LoadsWhole`, `BootsFromFlash`); `StreamsTruly` (`FifoExact`, `LogInOrder`); `EepromTruly`; `Ends`;
* `ArgumentsMeant` (`OptionsMeant`, `OperandsLast`), `ReadsFile`, `LastAsked`, `RunsWhole`, `Ends`;
* claims that the code does not keep, which no run states: `ImageAlways`, `WrittenWhole`, `RefusesCut` (section 6).

Properties that are conjunctions of named parts have a mutant for each part where one is
listed more than once in `PROJECT.json`.

## 5. Proofs

All of these hold for every value of the constants allowed by the named assumptions, with
no bound on runs, jobs, depth or masters.

| Theorem | Says | From |
|---|---|---|
| `EngineTypes!TypeCorrect` | every register keeps its type | `SizesAssumption` |
| `EngineProofs!FreshDone`, `LoadIdle`, `ModulesOn` | `DoneIsFresh`, `LoadsIdleWalker`, `ModuleEnable` | the invariant `IInv` |
| `EngineOrder!ImplementsJobQueue` | `JobOrder`: the engine implements `JobQueue` | `OrderInv`; `OrderlyHost` |
| `EngineOrder!ResultOfOldest`, `FetchesOwnJobs` | `ResultOwner`, `FetchesJobs` | `OrderInv`, `ServeInv`; `OrderlyHost` |
| `EngineOrder!QuietDone` | `QuietMeansDone` | `OrderInv`; `OrderlyHost`, `NoAppend` |
| `EngineOrder!BusyDone` | `BusyMeansDone` | `OrderInv`; `OrderlyHost`, `WaitOn = "busy"` |
| `EngineOrder!NoneLost` | `AppendsRun`: no job is lost but behind a queue whose mark an append has taken | `OrderInv`, `FollowInv`; `OrderlyHost`, `KeepsAppends` |
| `EngineOrder!NoneMissed` | `NoMissedCompletion` | `OrderInv`, `ReportInv`; `AskingHost` |
| `FifoProofs!FifoTypes`, `FifoFlagsSafe`, `FifoViewsOrdered` | types, no over- or underflow, stale views err on the safe side | `RingInv` |
| `ChannelProofs!CopyMoves` | `CopyInStep` | `ChannelInv`; `ChannelDepth`, `ListsAssumption` |
| `ChannelProofs!BurstsStop` | the two parts of `BurstsFit` about bursts | `ChannelInv` |
| `ChannelProofs!BurstsAndMarkerFit` | `BurstsFit`, the marker included | `ChannelInv`, `MarkerInv`; `ShortLast` |
| `ChannelProofs!WritesInside` | nothing is written outside the destination's buffers (`InsideBuffers`) | `ChannelInv`, `WriteInv` |
| `ChannelData!DeliversInOrder` | `WrittenInOrder`: memory holds the words of the job from the first on, each in its place | `ChannelInv`, `DataInv` |
| `ChannelData!ImplementsTransfer` | `Transfers`: the channel implements `Transfer` | `ChannelInv`, `WholeInv`; `Roomy`, `MarkersAhead` |
| `ArbiterProofs!ArbiterTypes`, `AnswersMatch` | answers reach their owner, for a memory that does not answer in the first clock of a cycle (`Prompt = FALSE`) | `GrantInv` |
| `DownloadProofs!DownloadTypes`, `NeverRunsPart` | the processor never runs a program that is in its memory only in part | `DownloadInv`, `DownloadAssumption` |

*Engine.* `DoneIsFresh` is not inductive: it says nothing of the states between TR0 and the
next wait, in which the flag of the old job is still up. `IInv` says, for each state of the
controller, which states the walkers, the done flags, the beat counter and the enables of
both channels can be in: idle and with flags down when a load begins, in step with `inc`
during it, loaded afterwards, idle again one clock after TR, flags down one clock later.
The controller needs at least that clock before it loads the channel again, which is where
the proof goes through. The proof has a step per action of `CtrlMachine` and one for reset.

*Order.* `EngineOrder` is about the hosts for which the promise is meant. `OrderlyHost`: the chain bit is
the one the controller tests, the next pointer of the last job is valid before the bit is, and a
host that appends learns from the results, not from busy, that its jobs are over; section 6 has what
happens to each of the others. Any number of jobs, any job words with the bits decoded, any mix
of queues, appends, acknowledges, polls and resets, any bus and any walkers are included.
`OrderInv` ties five things together, and none of its parts is inductive alone:

* `HistoryInv`, `QueueInv`: `started` and `finished` are 1, 2, .. and differ by what the state says
  (none in IDLE or in the pass of an append, one while the second is loaded, one or two while they are
  waited for); `wbs_adr4`, `cdar`, `next_desc` and `ctl_adr` are those of the job being read, of the last one read
  and of the two in service, with what has been read so far (`Fetch` grows into `Last` with `inc`).
* `MemInv`: a chain bit the controller may still read belongs to a job that has a successor, so
  that `next_desc` is never followed into memory that is not built.
* `HostInv`: what the host's position says of the engine. A host that builds its next chain has been
  told the truth, so all jobs are started and the last is finished or being retired (`ContentInv`); a
  dirty NDAR that is enabled is that of the next job (`NdarInv`).

`QueueInv` has a lemma per state of the controller (`MachineQueue` joins them), `HostInv` one per part
for a clock cycle (`CycleOrder`) and one per store of the host, and reset one of its own (`ResetOrder`).
The refinement maps each step of `Engine` to a step of `JobQueue` or to a stutter. `ServeInv` adds that the result is written behind a walker that
has ended, and that an append resumes from a job retired since the last reset. `QuietDone` needs `NoAppend`:
`FullInv` (every job but the last of a chain is chained when it is handed over) is false with appends.
`ReportInv` follows the interrupt bit from the job word (`WordInv`) over the result block
(`WrittenInv`) to the interrupt, which stays up until the host looks (`ToldInv`). `AskingHost` asks for a
result block with each interrupt, since the host has no other way of telling which jobs are over, and resets
nothing, since a reset takes the interrupt down unseen.

`AppendsRun` needs to know where the controller would go on, for which `FollowInv` has five parts. Only the first
job of a queue is not linked to (`LinksInv`). A job that was read without its chain bit, though it has a
successor, was linked after that, so an append that says so is on its way (`HeardInv`). At rest, the job the
controller resumes from is the last it has started (`ParkedInv`); with jobs left that no NDAR names, that job is
linked, and an append will be taken, or the pass of one has yet to read the bit, or has read it set (`ResumeInv`).
The append is only cleared when its pass is over and nothing has been read since (`ClearInv`): the one place where
the code could forget an append that came too late. `KeepsAppends` keeps the host from acknowledging
while it appends, which takes the append back (`ack_append`); resets are allowed. Quiet, no
register announces anything, so what is left can only be behind a queue whose mark is gone.

*FIFO.* The six pointers lie on a ring, in the order `rview`, `rsync`, `rptr`, `wview`,
`wsync`, `wptr`. `RingInv` says so with distances: the words stored are the sum of the three
from `rptr` to `wptr`, and with the two from `rview` to `rptr` they come to at most
`Depth - 1`, so the row never wraps into itself. Each edge moves a pointer up to at most
its neighbour (lemmas `DistInc`, `DistSum`), and a write is refused when `wptr + 1` is the
oldest view of the reader.

*Channel.* Both FIFOs run on one clock there, so each copy of a pointer is at most one place behind
what it copies (`Ring`). Writer and reader then see different fill levels, `Taken` and `Seen`, with the truth,
`Count`, between them; lemma `RingClock` says how far they move in a clock. `CopyInv` says for each state of
the copy machine what it may rely on: it enters S_RUN with a word and a place to spare in the
clock it tested the almost flags. `BurstInv` says the same of a walker in a burst, which ends one on the
almost flag or on half full. `ListInv` says where in its list each walker is: at a descriptor, inside a
buffer with `addr + len` fixed, or behind one. `MarkerInv` is `ListInv` and `BurstInv` together for the last
buffer: what is left of it and what is taken leave a place. It needs `ShortLast`, that the
last source buffer of a copy is at least two words shorter than half a FIFO; the lists of `channel` are such,
and `marker_lost` has one that is not. The hypotheses on constants are those of the code:
a depth that is even and at least 8 (`fifo_control.v:165`; `ch.v` has 2^9), lists that are not empty and buffers
that are not either.

*Words.* `ChannelData` numbers the words of a job. Of the words the source walker has put into its FIFO, some are
taken by the module, of these `c` have left the destination FIFO, and of these `n` are in memory; `Flow(c, n)` says
what follows for both RAMs, the RAMs' output registers, the walkers' registers and memory. While
the destination walker works through its list `n = c`: a word is taken from the FIFO in the clock the bus takes it and in no other, so
what is refused is offered again. Each word is in one place (`OnePlace`) because buffers do not overlap. `DeliversInOrder` has no hypothesis
but those on the constants: it holds through errors, lists of unequal lengths and stale markers, which can end a job
early but not put a word where it does not belong. What it allows behind the last word is the marker, below.

`WholeInv` adds that a job does not end early. The end is bit 64 of a RAM word, and RAMs are never cleared:
`Stale` says at which places one that an earlier copy left there may still lie, and that they are not yet written over
(`Laps` ties the pointers to the words counted); `Shown` that the output register shows none in between. `MarkersAhead` says that its marker lies at place 0
or not before the end of what the next copy writes, so that the marker met first is the job's own;
a fill job keeps ahead of the walker, so the FIFO is not empty before its job is over (`FillInv`). `Roomy` says that the
destination has room for all words. For `ch.v`, whose ring has 2^9 places, copies whose sources are a multiple of
512 words (4 kB) meet both, and so do jobs that are shorter than the ring and do not grow from one to the
next; `MCChannel` has TLC evaluate both for the lists of the run (`ListsWhole`). Section 6 has lists that do
not. The refinement maps each word written to a step of `Transfer` that delivers it, and every other clock to a
stutter or to the next job.

What a recursive function computes is proved there from `NatSet`, induction for a set of numbers instead of
a predicate, which in turn follows from the pigeonhole fact of the library: `BeforeNext`, on the words in front
of a buffer, is the lemma that needs it.

*Arbiter.* `GrantInv`: a master without the grant has had no answer in its present cycle, so it
holds its request; while `gnt_r # gnt` the new owner asks, so the grant does not move on, or a reset has just
taken all requests and nobody asks; and
if the bus was open in the clock before and the master it shows still asks, the grant is
that master's. The last part is what the slower memory buys.

*Download.* `RunsWhole` alone is not inductive: nothing in it says that the processor is stopped
while blocks are written. `DownloadInv` adds that from the first message answered to the last
one sent it is, that the blocks before the one being sent are held, and that what was last
written is the image at hand. A poke that is done but not answered has written the next block
already; `Held` therefore lets the next block count over those before it. Lemma `PokeHolds` is the step
from one block to the next, `ArrivalHolds` the same for a message without an answer. Images are
not empty (`DownloadAssumption`): see section 6 for one that is.

**Only model-checked:**

* `Allocates`, `Consistent`, `GoodFit`, `NoLeak`: the classes of `Tlsf` are powers of two and maxima of sets of them, about which the
  provers know nothing, and the joins rest on sums over the areas.
* `WritesImage`, `ReadsBack` and the properties of `UsbTools`: the bits of an instruction are taken apart with `Bitwise`
  (`SerialFlash`), which is recursive, and nothing that reaches a recursive operator can be proved about.
* `ArgumentsMeant`, `ReadsFile`: `Getopt` and `Ezusb` are recursive; `RunsWhole`, the part of
  `FwBoot` that is about the processor, is proved of `Download`.
* `JobsEnd`, `AllFinish`, `FlagsCatchUp`, `GrantComes`, `Ends`: liveness; fairness and `ENABLED` are beyond the prover.
* The library's theorems on induction take an operator as parameter, which none of the provers can instantiate.

## 6. Where code and documents disagree

* **Acknowledge loses an append** (`ack_append`). Any write of CCR sets `append` to its bit 0
  (`wbm.v:284`). The acknowledge of `ben_adma.v:1266` has that bit clear: an append that the
  controller has not taken is withdrawn and the job never runs.
* **Lost marker** (`marker_lost`). S_NEXT pushes the end marker without a look at the FIFO
  (`ss_sg.v:351`). A last source buffer that ends when the source FIFO has just become full loses
  it and the copy never ends. `MarkerTaken` holds in `channel` because its last
  buffers are short.

The rest have no run of their own; each can be seen by the change named.

* Flash still writing: the wait at the start of a flash program is commented out (`pci_spi.c:486`, `v4_pci_spi.c:531`). A
  program started while the flash still writes for one that was killed is not heard: its erase is lost, and it
  ends as if it had erased. (`pci_spi` with the invariant `ImageAlways` in place of `WritesImage`.)
* Write and read in one run: `fw -w` with `-r`, as the usage has it (`fw.c:150`), asks for endpoint 2
  when the last packet is taken. The answer sets AUTOPTR (`fpga_control_fw.c:387`) while the main loop copies that packet
  through it (`fpga_control_fw.c:424`), and the FPGA gets other bytes from there on. `FifoExact`, in the run, says that this
  is the worst that happens. (`usb_tools` with the invariant `WrittenWhole` in place of `StreamsTruly`.)
* Stub of a line: `strlen(buf) - 11` is unsigned (`ezusb.c:134`), so a line that ends within its first eleven characters
  passes for long enough and is loaded with what the buffer holds. `ReadsFile` says that it spoils only the addresses
  it names. (`fw_boot` with the invariant `RefusesCut`.)
* Swallowed queue: in IDLE the test of `append` follows that of `ndar_dirty` as an `end if` without an
  `else` (`ctrl.v:401`, `413`). With both set, NDAR is marked as taken and the append is what is run. The host
  must queue again while the controller looks at an append whose job it has run already, and append
  to that queue: four jobs, the second and the fourth appended. The chain behind NDAR then never runs (`QueueLost`), and nothing tells the host. (`Engine` with `NJobs = 4`,
  `Ops = {"queue", "append", "poll"}`: `QuietMeansDone` fails, `AppendsRun` holds.)

* Chain bit: `ctrl.v:26` and the bench (`ben_adma.v:932`) chain with bit 14, the code tests bit 10
  (`ctrl.v:442`). The bench's interrupt flag, bit 15 (`ben_adma.v:1138`), is bit 11 in the code in the
  same way. (`Engine` with `ChainBit = 14`.)
* Stale marker: `dst_end` is bit 64 of the RAM output even when the FIFO is empty (`ch.v:201`).
  An earlier job of six words leaves its marker at the place the read address has after six
  words of the next job; a first buffer of six words then ends the job early. The second test in
  S_NEXT is an `if` where an `else` seems meant (`ss_sg.v:350`), so `ss_end` is ignored there.
  (`MCChannel` with `Lists <- SameLength`, no waits and no errors: `MarkersAhead` is false, and without the assumption
  `ListsWhole` `Transfers` fails.)
* Word behind the last: when the last word leaves the FIFO inside a burst, the marker is what comes next, and its data
  lines may be written behind the last word before the walker sees the end, if the destination list has
  room there. `WrittenInOrder` allows this one word (`Arrives`), and no more.
* Answer to another master: `mo.v` drives the request under `gnt_r`, `mi.v` returns the answer
  under `gnt`. With a memory that answers at once, as the bench's does (`ben_adma.v:152`), a
  master that drops `cyc` for one clock and raises it again gets its request out while the answer
  goes to the next master. (`Arbiter` with `Prompt = TRUE`: `AckIsMine` fails.)

Three more show up when the constants of `Engine` are changed. With `LateNext = TRUE` (the
next pointer is written together with the chain bit, as `ben_adma.v:1115` does) and an
append, `FetchesJobs` fails: a descriptor is read beat by beat (`ctrl.v:294`), the old pointer
with the new bit. With `WaitOn = "busy"` and appends `BusyMeansDone` fails: busy falls for the
clock in which IDLE has not yet taken the append. Without `"poll"` in `Ops` `AllFinish` fails:
nobody makes the access TR0 waits for. S_WAIT0 looks at `c_done1` only, although
`ctrl.v:30` says it waits for both walkers of the channel (the other test is commented out).

*Allocator.* Joining an area to the one behind it sets PREV_USED on the result whatever lies before
it, against its comment (`tlsf.c:475`, `457`): with the areas `<<128,22>>, <<80,20>>, <<100,28>>` `Coalesced` fails.
`realloc_ex` does not test its malloc: without room it copies to NULL and frees the block (`tlsf.c:784`); the
model stops there (`crashed`). `init_memory_pool` called again returns the size of an internal block
(`tlsf.c:419`), and the product of calloc wraps (`tlsf.c:800`).

*Flash programs.* Programs are killed before any access. Raising SEL in the reset ends the
instruction a killed program was in; that may itself start the page or the erasure, and the program then finds a flash
that is writing (`ready` is false), which is the case above. `find_pci_device` spins at the end of its file when no device matches. The
second program looks for one board only, though it drives both, and leaves the flash selected after its reset (`v4_pci_spi.c:157`).

*Configuration files.* `bit_read` does not look for the end of the file: without a key it searches for ever (`bit_read.c:27`; `Ends`
excepts it); a file that ends in its length gives a length of which some bytes are not from the file, and zeros for data;
data that are too short are reported and filled up with zeros, the static buffer's (`bit_read.c:54`). `CutData` and `CutLength` are in the runs.

*USB.* Two packets that wait together are served in the order of the routine: with `Prompt = FALSE`
the question for the status overtakes the command to start the FPGA and `fw -f` gives up. `i2cSendByte`
always returns 0 (`i2c.c:107`), so the tests in `24xx.c` for a chip that is still writing are dead; `EepromTrue` is
for a chip that is quick, `EepromWhole` for any. A log read whose last packet is full times out and loses what it had (`lost`), as one that is
killed does; `LogInOrder` says that no more is lost;
a byte that is no packet head makes the loop of `fw.c:302` spin. A packet's last bytes that make no group of eight
are dropped (`fpga_control_fw.c:424`), so the one byte of `fw -E` never reaches the FPGA. `fw -f` may ask for DONE before the main loop has copied the last packet,
and then reports a failure that is none. The wait for INIT_B in the interrupt routine has no bound. Results of the
transfers are not tested in `spi.c`. A program killed after a question leaves the answer to the next program; what
that reads depends on the data toggles as well, so kills are between exchanges, or inside the read of a log, and the next program starts
when the firmware has nothing left to do.

*Download.* `-b` beats `-f` whatever their order. What `ezusb_write_image` returns is dropped: `fw` ends with 0 while the
processor is stopped (`fw.c:200`). The retry is for -1 only (`ezusb.c:54`), which is not what libusb returns for a timeout.
Blocks are written newest first, so of two lines for one address the earlier counts. A file without an end record is
loaded with a message, one without data gives no block and no error: the processor is then started on what a
download killed before has left. Memory that runs out while the file is read is not modelled.

## 7. Not modelled

* `read.v`: a job without a destination is over for the controller before its source has
  been read; the module has no one to report to. `codeout.v` and the coders behind it: the
  coder is not in the repository. `rbhash.v` is not instantiated.
* The SPI window and the debug registers of `wbm.v`, `ocnt`, cycle counters: no other state
  depends on them.
* Errors and retries of the controller's own bursts: it ignores both (`ctrl.v:434`), so they
  are wait states.
* Buffers of length zero, which wrap `sg_len` to 65535: no list of the repository has one.
* Metastability: a synchronizer delivers the old or the new gray code, and both are
  reached by the interleavings of `FifoClocks`.
* `tlsf.c`: locks, growth by mmap and sbrk, statistics, print functions; the test program is built without
  them. `getopt.c`: long options, `-W`, optional arguments and RETURN_IN_ORDER, which no program here asks for.
* Firmware: set-up packets of endpoint 0, answered from constants; endpoint 5 and the servo timers; the data toggles;
  the assembly in `vectors.asm` and `misc.asm`. `fpga_control_fw.h` is register addresses and descriptors.
* `fw -t`, which repeats without end the question every run of `fw` begins with, and `-S`, which prints its answer. `fw -w` from a file that is
  not there, which returns with the pins set. A configuration file that is not there: `pci_spi` writes nothing, `fw -f` leaves, `spi -W`
  copies from NULL.
* A read with `-s` below what the FPGA has: reads take all there is, up to a short packet.
* Board level, remaining benches, drawings, scripts: see `components` in `PROJECT.json`.

## 8. Plan

1. Both channels, the controller's bus master and the arbiter in one module, `Channel`'s
   phases replaced by `Ctrl`; `SgPort` shown to be an abstraction of `SsSg` (RUN for the four
   running states).
2. `read.v` as a module of its own; a kill between a USB question and its answer.
3. Proofs: that `Tlsf` keeps the blocks of one area in a row (`Tiled`), with the classes as a constant function that is
   monotone, so that no power of two is left; `SerialFlash` with bits as functions in place of
   `Bitwise`, after which `WritesImage` is within reach.
