# Verification of the Osprey timing firmware

TLA+ models of the timing firmware, the TLC runs that check them on small
instances, and theorems about them that TLAPS checks for every size.
`PROJECT.json` lists the components, runs, mutants, source lines of every
definition, findings, hazards and theorems; this file explains them.

Paths: `hdl/` is `src/EVG.srcs/sources_1/hdl/`, `app/` is
`src/Workspace/EVG/src/`, `ip/` is `src/ip_repo/`.

To run: `tlc -config MCMpsTrip.cfg MCMpsTrip.tla`, `tlapm MpsProofs.tla`.

## 1. The system

A node is an FPGA: Verilog in a handful of clock domains, and a soft processor
that runs one loop (`app/main.c:66-103`). After the initialisations the loop
calls `clockAdjustScan`, `mgtCrank`, `consoleCrank` and `ospreyUDPcrank` for
ever. Software has no threads and no interrupts; a UDP packet is handled to its
end before the next one. Concurrency is between the clock domains, between the
nodes, and between the clients on the network.

The nodes form a tree: the event generator (EVG) at its root, fanouts (EVF)
below it, event receivers (EVR) in all of them. Events and the time go down the
fibers; machine-protection trips and link states go up.

### 1.1 Inventory

| Component | State | Operations | Interacts with |
| --- | --- | --- | --- |
| MPS local channel (`hdl/mpsLocal.v`, `app/mps.c`) | good state, importance mask, force trip, latch, first fault and its time | driver setters on sysClk, one edge of the recovered clock | merge, clear event |
| MPS merge, clear and transmit (`hdl/mps.v`, `mpsMerge.v`, `fiberLinks.v`, `evf.v`) | stretched clear, merged latch, transmitted trip | one edge of the transmit clock per node | parent and children through the fibers |
| Event sequencer (`ip/ospreyEVG/hdl/ospreyEVGsequencer.v`, `ospreyEVG.c`) | tables, armed/triggered/mode masks, running bank, address, gap counter, prefetch | commands through a toggle, table writes, one edge of the event clock | driver, timers, inputs, event stream |
| EVG registers (`ospreyEVG.c`, `ospreyEVG.v`) | timers and their shadow copies, trigger codes, distributed bus, sequence table behind an address, selectors | register reads and writes | register server, event stream |
| EVR outputs, event log, time (`ip/ospreyEVR`) | actions, delay and width of each output and the words it drives, log, seconds and ticks | register reads and writes, events | register server, MPS timestamps |
| Reference clock (`mgtClkSwitch.c`, `si570.c`) | crosspoint output, frequency, what the software remembers of both | select an input, program the oscillator | register server, transceivers |
| Clock synchronisation (`marbleClockSync.v`, `clockAdjust.c`) | phase, DAC value, validity | PPS edges, DAC writes | time of day |
| Transceivers (`mgtWrapper.v`, `mgt.c`, `mgtClkSwitch.c`, `si570.c`) | alignment machine per lane, lost-clock latch, reset sequence | crank, lane resets, clock selection | every fiber, eye scan |
| TFTP server (`app/tftp.c`) | open file, last block, transmit buffer | a packet | file system, UDP |
| File system and boot flash (`app/ffs.c`, `bootFlash.c`, EEPROMs in `iicFPGA.c`) | memories, one offset, one mode | open, read, write, close; erase, program, check | TFTP, parameters, console |
| System parameters (`app/systemParameters.c`) | the block and its checksum | init, stash | file system, console |
| Register server, EPICS/LEEP (`app/epics.c`) | request and reply, power-up flag | a packet, served register by register | every driver |
| UDP interface (`ip/ospreyUDP/.../ospreyUDP.c`) | endpoints, one received and one transmitted datagram | crank, send | all servers, the network |
| Modbus server (`modbusServer.c`) | the last nonce and its reply | a request | UDP, the application's registers |
| Console (`app/console.c`) | datagram buffers, line, question and its arguments, startup log | crank, a datagram, output of other parts | parameters, flash, eye scan, reboot |
| Eye scan (`app/eyescan.c`) | place in the raster, counts, transceiver, deadline | command, one step a turn | console, transceivers |
| Board support, GNSS | I2C multiplexer, parser | cranks | console |

### 1.2 What is hard

- *Clock domains.* Registers written by the processor are sampled by another
  clock through toggles and two-stage synchronizers; a clear, a disarm or a
  cancel can fall on any edge of what it is meant to stop.
- *A distributed latch.* Trips travel up several fibers while clears travel
  down; a fiber, a clock or a node can fail in the middle, and fiber 1 of the
  EVG is looped back to itself.
- *A prefetching table player* with gaps stored minus one, an end marker, an
  address overflow and banks that preempt each other's turn but not each other.
- *A reset sequence that cannot see everything.* The reference clock may vanish,
  return or be switched by a client between any two register accesses of
  `mgtCrank`, and one latch has to tell of it; meanwhile each lane is reset
  until it happens to start with the right alignment.
- *Registers that share.* Most registers are behind a selector, a shadow copy or
  a static variable that every client moves; seconds and ticks are read one
  after the other while the time runs.
- *One console for everybody.* Keys and datagrams take turns on one line editor,
  one pending question and one scan, with buffers that fill in the middle of a
  command.
- *One datagram at a time.* The hardware takes the next packet as soon as it is
  told that the last one is read, and sends from registers that the next reply
  is written to; requests are repeated, and a transmitter may hang.
- *Lossy clients.* TFTP over UDP with one session and one open file for the
  whole node; a flash that must be erased by the sector and may fail; a power
  failure at any moment.

`PROJECT.json` has these as 40 hazards, each at its line, most with the
properties that would show it going wrong. Those without a property say why.

### 1.3 What makes each component correct

- MPS channel: no lasting fault goes unlatched; the recorded first fault is the
  first; a node that was never cleared is tripped.
- MPS tree: a trip anywhere reaches the EVG within a bound, whatever else
  happens; a clear releases everything; no loop keeps a trip alive.
- Sequencer: each event of the table once, in order and on its tick; the highest
  waiting bank next, no preemption; no start that was not armed; every trigger
  served.
- File service: what a client is told was stored is stored; what it fetched is
  what is stored; stashed parameters survive everything but their own
  replacement; the file lock never outlives its transfer; transfers end.
- Transceivers: no reset is taken to be over before all lanes have completed it;
  a reset that stands had its clock throughout; a wrong alignment is never
  reported as a link and a good link is left alone; links come up.
- Register server: a read tells what the last accepted write left; times are
  true; no timer runs too fast or without a code; a pulse is as long as asked;
  the transceivers' reference never changes while it is on.
- Console: a question's answer does what the question said; input and output are
  queues; every scan is measured where it is plotted; it comes to rest.
- UDP and Modbus: one packet, one whole answer, for its sender; a repeated
  request is not executed again; a hanging transmitter holds up nobody else.

## 2. Modules

| Module | Models | Checked by |
| --- | --- | --- |
| `MpsChannel` | the channels of one node | `mps_channel`, `MpsProofs` |
| `MpsTree` | one tick of every node of a tree, and its disturbances | through the next two |
| `MpsTrip` | `MpsTree` and how long each node has been tripped; clears that are repeated | `mps_trip`, `MpsProofs` |
| `MpsClear` | `MpsTree` and how long it has been undisturbed, when it was cleared | `mps_clear`, `MpsProofs` |
| `SequenceTable` | tables and the tick each event is due: a pure function | through the next two |
| `SequencerService` | abstract: what the sequencer promises | refined by `EvgSequencer` |
| `EvgSequencer` | every register of the sequencer, every command | `seq_play`, `seq_banks` |
| `SequencerStarts` | `EvgSequencer` and what allows a start | `seq_banks`, `SequencerProofs` |
| `FileServer` | TFTP server, file table, memories, parameters of one node | through the next two, `FileServerProofs` |
| `ParameterStore` | `FileServer` and what was last stashed | `param_store`, `FileServerProofs` |
| `TftpTransfer` | `FileServer`, a client and a network | `tftp_transfer`, `tftp_lost_error`, `TransferProofs` |
| `MgtReceiver` | alignment machine and link status of one lane: pure functions | through the next |
| `MgtReset` | reference clock, latch, resets, `mgtInit` and `mgtCrank` | `mgt_reset`, `MgtProofs` |
| `EyeScan` | the scan: operators from a state of it to the next | through `Console` |
| `Console` | both consoles, the line editor, the commands with a state, `EyeScan` | `console`, `ConsoleProofs` |
| `CharQueue` | abstract: a queue of characters | refined by `Console` |
| `EvgDriver`, `EvrDriver`, `MpsRegisters`, `ReferenceClock` | a driver with its device as one record: operators | through the next |
| `LeepServer` | the register server with these four behind it, time, events, link | `registers`, `LeepProofs` |
| `RegisterFile` | abstract: what a client of the server is promised | refined by `LeepServer` |
| `ModbusServer` | one Modbus request: operators | through the next |
| `UdpInterface` | receive and transmit hardware, crank, `ModbusServer`, another server | `udp`, `UdpProofs` |

`MC*` modules only give constants their values. History variables live in the
modules that extend a component and are read by none of its actions (in
`MpsChannel`, `EvgSequencer`, `MgtReset`, `Console`, `LeepServer` and
`UdpInterface`, in a declaration that says so; the network of `UdpInterface`
reads one, section 2.8).
Definitions commented "faulty" are plausible mistakes; nothing uses them but the
mutant runs, which show that each property can fail.

### 2.1 MPS channel

Variables are the registers of `mpsLocal.v` and `mpsLocalChannel`, one set of
inputs or outputs per bit vector. An action is either one driver call of `mps.c`
(sysClk) or `AcqEdge`, one edge of the recovered clock on which all its
registers change together, with any pins, any clear strobe and any time. Reading
registers back is left out. What two-stage synchronizers add is kept: both
stages are variables.

### 2.2 MPS tree

The outputs do not interact, so the tree is modelled for one. All nodes run at
one frequency, so a `Tick` is one cycle everywhere. Every path between two
latches counts as `Hop` = 3 ticks up and one down; the real paths are longer,
which rescales the bounds and nothing else. Each tick the environment may put
any of five troubles on a node: a lasting or passing fault, a bad character in
either direction, a recovered clock that stops, a reconfiguration. The cabling
(`Parent`, `Path`) is a constant. `mpsMerge`'s required-links mask is fixed to
the links in use.

### 2.3 Sequencer

One sysClk action per driver call: `Command` puts a command in `sysCSR`, and the
two table writers. `EvgEdge` is one edge of the event clock, the conjunction of
what each register group does with a disjunction over the state machine. The AXI
wait states that keep back-to-back writes apart are `WriteEdges`. A client
writes only the tables of idle banks: that is the documented condition
(`ospreyEVG.md:62-68`), and the code does not enforce it.

`PlaysTables` is a refinement: `EvgSequencer` implements `SequencerService`
under the mapping `waiting <- evgTriggered`, `active <-` the index while
`evgStart` or `evgActive`, `event <-` the code while it is valid. The service
knows nothing of prefetch, stored gaps or overflow; it computes ticks from the
table (`SequenceTable`).

### 2.4 File service

`tftpHandler` is one action with a disjunct for each branch of the handler,
including the file-system calls in it. Data is counted in blocks and lengths in
half blocks: enough to tell a full block from a short and an empty one, which is
all the protocol distinguishes. Flash is erased by the sector when its first
block is written; a write checks what it wrote, and a write over unerased data
leaves a `Torn` block and fails. With `MemoryFails` any write or EEPROM access
may fail and leave what such a failure can leave. `Restart` cuts a write short
at any point, then reads the parameters as `systemParametersInit` does.
The checksum is abstracted to membership in `ParamValues`: a torn or foreign
block is taken not to pass it.

In `TftpTransfer` client and network are external to the code: the client repeats
its last packet at will, gives up at will and starts a new session; the network
loses packets and keeps their order; packets of an earlier session can still
arrive.

### 2.5 Transceivers

`pc` says where the processor is in a handler; each action makes one register
access, so that hardware, clock and fibers can change between any two. The
sequence is `SeeLostClock`, `ReleaseLanes`, `CrankReset`, `ScanLane` and
`FirstResetReady`; `ReleaseLanes` again up to `SecondResetReady`; then
`AssertLaneResets` and `ClearLatch`. `mgtInit` goes the same way through
`InitReset` and `Activate`, without a wait for the lanes and with no second
reset. Its `eyescanInit`, which writes reconfiguration registers only, is left
out, and its wait for lock gives up only when there is no clock.

`Edge` is one edge of sysClk in all registers of `mgtWrapper.v`; each recovered
clock has at most one edge in it. A down counter whose sign bit means "done" is
counted down to zero, where it stays; the loads are constants. The reset's
dither, the transmitters' power, loopback, RXSLIDE and reconfiguration are left
out. The eight lanes are reset alike; `Receivers` are those whose alignment is
modelled.

External: PLLs lose lock with the clock and take more than one period of sysClk
to regain it; a lane's reset is done some time after the soft reset ended, with
lock, and is not withdrawn by the loss of a clock (`epics.c:129`: "no status
indicating an issue"); a receiver out of reset first brings characters that are
not in the table, then settles on some alignment: the right one, one that yields
bad characters, or one that is off by half a word and yields good characters
with the commas in the wrong byte.

### 2.6 Console and eye scan

A turn of `consoleCrank`, a call of `consoleCallback` and a message of another
part of the program are atomic steps, because they are in the code: the main loop
runs them to their end. What the clock and the scanner have done by then is a
choice of the turn (`Found`, `Late`). Within a turn several functions change the
output buffer and the scan, so both are values handed on from one to the next
(`o` and `s` of the operators) and stored once. A printable character stands for
a word and its space, a `printf` for one byte; the bytes of a session carry their
numbers (`unsent`), by which `OutputInOrder` tells a byte that is lost, repeated
or of an earlier session.

Sending can itself write output: if the transmitter has locked up,
`ospreyUDPsendto` prints an alarm (`ospreyUDP.c:176`), which comes back through
`outbyte` before `drainUDP` has reset `txCount` (`console.c:89-91`). `drainUDP`
and what is built on it therefore tell the set of states that may follow, with
three cases of the alarm:

- it has room behind the datagram, and is dropped when `txCount` is reset;
- it fills the buffer up (`Spills`), which is sent from within, and its end falls
  on the front of the datagram proper;
- the buffer is full already (`Overruns`): the alarm runs past the end of `txBuf`,
  onto `txCount`, which is next in memory, and goes on in `txBuf` or in `rxBuf`,
  depending on the order of the two stores of `console.c:111`.

The properties are about every step in which the first case or none occurs; a
step with one of the other two is marked by `overrun`. After such a step the
output is in order again, while a command line that was in `rxBuf` may have
changed (`Smudge`).

Likewise an error count is the sequence of the
measurements it adds up, by which `ScanInPlace` tells whose they are.

`InputIsQueue` is a refinement: the buffer, its index and its count implement
`CharQueue`, although the callback moves what is unread to the front; a step with
`overrun` may overwrite characters, but not add any.

### 2.7 Register server

A packet is a sequence of register accesses. `OneLook` serves a register whose
driver looks at the hardware once; reading the time of day takes three steps or
more, and so do the registers that switch the reference clock. Reading the log of
events takes two: what the read tells is registered one clock before the read
takes an event and latches its time (`ospreyEVR.v:476` and `338-341`,
`488-491`). An event that is logged between the two is taken and told as none.
`told` and `lost` keep which events came to which end, and what the losing read
had seen. Between any two steps the hardware acts: `Advance`, `LogEvent`,
`Drop`.

Numbers are those of the code, with its limits as constants; an error code is
the 32-bit word of the negative number. The registers of one output are written
in one step (`setOutput`), so that `PulseAsAsked` is about settled settings, not
about a pulse that is triggered between two of the writes. What a synchronizer
shows of a trigger's code, or what the table shows before it is written, is any
value of a small set.

`ReadsBack` is a refinement of `RegisterFile`: one memory cell per register, a
write that stores or is refused, a read that tells what is stored. It knows
nothing of selectors and shadow copies. What it does promise in the code's own
way is in `Adjusted` and `Along`: a divisor reads back 2 less than was written
(`ospreyEVG.c:257`), bit maps keep their width, and the code of a table entry is
the one beside the delay that was read last.

### 2.8 UDP and Modbus

`UdpInterface` takes one step per access to the hardware: see that a packet is
there, read it, let go of it, call the server, send. The hardware may take the
next packet after any of these and finish a transmission, or hang, in between.
The network repeats, loses and reorders because `Deliver` may choose any packet
next. `owed` is what the packet at hand should be answered with, from what the
request is and what it was answered before; `AnsweredAsOwed` compares it with
what leaves the node. That a packet is not overwritten while the software still
reads it is the part of `TypeOK` about the receive buffer. The Modbus
application is external: it takes or refuses a request as a whole.

The client's choice of nonces is external as well, and an assumption: two
requests of which one could follow the other have different nonces
(the guard `Recent`). Without it a second client that happens to use the last
nonce gets the first one's reply (`modbusServer.c:122`), which is how the
protocol is defined.

## 3. Runs

| Run | Instance | Shows |
| --- | --- | --- |
| `mps_channel` | 1 output, 2 inputs, 2 times, symmetric | latch, first fault, power-up, detection of a lasting fault |
| `mps_trip` | EVG, fanout, leaf; all troubles, one node a tick; window 2 | a trip reaches the EVG in `Hop` ticks per fiber; repeated clears release the tree in the end |
| `mps_clear` | same tree; window 8, the round trip | one clear in a calm tree releases every latch |
| `seq_play` | 1 bank, 4 entries, a code and the end marker, gaps 0 and 2, rewritten at will | refinement for every table |
| `seq_banks` | 2 banks, one input, arm, disarm, modes, cancel; tables of power-up | refinement: choice, no preemption; one start for one arm command; no trigger waits for ever |
| `param_store` | 4 files (one is the whole flash, one an EEPROM), 2 parameter values, any packets | types, the file lock, survival of the stash |
| `tftp_transfer` | 2 sessions, 3 uploads (short, exact, too long), one restart | stored = sent, fetched = stored, sessions end |
| `tftp_lost_error` | the same, error replies can be lost | **violated**: a lost error makes an upload succeed with a block missing |
| `mgt_reset` | 2 lanes, 1 receiver, 2 inputs one of which comes and goes; switches, requests, reinitialisations at any moment | lanes waited for, clean resets, alignment and link agree, links come up |
| `console` | 13 datagrams, two in any order, and one of 2 keys; 2 transceivers, a raster of 3 by 3, buffers of a few words, an alarm that may come whenever output is sent | questions, queues, scan in place, rest |
| `registers` | any two of 28 packets; 1 timer, 1 trigger, 1 output, 2 table entries, 2 MPS outputs; 4 ticks, 2 events, 1 lost link | register file, times, timers, pulses, reference |
| `udp` | 3 packets of 2 clients, 11 requests, 3 ports of which 2 are registered; 1 hang | answers, at most once, the packet is let go |

### 3.1 Bounds and why they are enough

- Two inputs: with one, no second fault could overwrite the first. Two times:
  with one, the recorded time could not be wrong.
- A three-level tree has a node that both merges and passes on, and the EVG's
  self-loop. Troubles strike one node in a tick, but over ticks they add up to
  any combination. A reboot of any node starts the counts of `TripReachesEVG`
  anew: the trip is allowed its time again from there. `mps_clear` has three of
  the five troubles. The tree theorems (section 5) have no such bounds.
- Window 8 is `RoundTrip` for depth two: the smallest window for which one clear
  can be enough. `ClearsReleaseTree` is checked with
  window 2, in which a single clear is not enough.
- Four entries contain an end marker in any position, none at all, and entries
  before and after a gap; gaps 0, 1 (in the tables of power-up) and 2 are those
  at which a counter stored minus one and prefetched one early changes its path.
- Two banks have a high and a low one. With three or more, the lowest could wait
  while two others alternate; `TriggerIsServed` is checked for two, where the
  running bank's own triggers are dropped, and is not claimed for more.
- Memories: a sector of two blocks has a block that is written without an erase;
  the parameters' sector is the next one, so that an erase or an overlong upload
  would reach it; `LastBlock` is small, so that block numbers reach it. The
  file of `tftp_transfer` is in flash, whose reads do not fail: that a download
  never gets the text of an error reply as a block is for other files shown by
  `FetchedCorrect` only.
- Uploads end short, on a block boundary (an empty last packet), and beyond the
  file. Two packets under way in each direction let old and new ones overlap.
- Two lanes: a scan that starts before one and ends after the other. One
  receiver, as receivers share nothing but the resets. Two commas: one that
  counts and one that completes. `AwaitLoad` is the shortest wait in which a
  receiver can lock, count its commas and pass the synchronizer; with less the
  alignment machine could never succeed, and the real wait, a fiftieth of a
  second, is far above it.
- Two sessions: the second meets what the first left behind.
- Two datagrams and a key: a question and its answer from different sources,
  a session that ends and begins again with input left over, a scan that is
  cancelled and another begun. The buffers hold less than two datagrams and less
  than one command's output, so both run over. The output buffer is four words
  and the alarm two: it finds room behind one word, too little behind two or
  three, and none behind four, as the real one of 54 bytes does in 500.
- Two packets: one sets up what the other reads or disturbs. Each pair of
  registers that share a selector, a shadow copy or a variable is in some pair
  of packets; among the values are 40, 41 and 300 around the limits of the code.
  The log holds one of two events, so that one is lost; four ticks of two a
  second let the second turn while the time is read, twice. `SerdesFactor` is 4;
  the theorem is about 1, 4, 6 and 8.
- Three packets: a request, another, and the first again.

### 3.2 Fairness

- `WF(Edge)`, `WF(ClearNext)`: the clock runs.
- `WF(Timeout)`: the client waits no longer than its timeout.
  `SF(ServerReceives)`, `SF(ClientReceives)`: the main loop polls the network
  for ever, and a network that does not lose everything delivers in the end.
  Sessions during which the node restarts are exempt from `SessionEnds`: the
  restarted server ignores blocks it does not expect, and the client has to give
  up by itself.
- `WF(Edge)`, `WF(Crank)`: sysClk runs and the loop polls `mgtCrank` for ever.
  `WF(Lock)`, `WF(LaneDone)`: PLLs with a clock lock, and lanes complete their
  reset. `SF(StartsRight)`: a receiver that is reset again and again starts with
  the right alignment in the end, which is what the design relies on
  (`mgtWrapper.v:264-265`). That the clock and the partner stay and that nobody
  keeps asking for resets are conditions in `LinksComeUp`.
- `WF(consoleCrank("overdue", TRUE))`: the main loop goes round and time passes, so
  again and again a turn finds that 50 ms and 20 s are over. Nothing is assumed
  of the scanner, which may never answer.
- `WF(Crank)`: the main loop polls the network. Nothing is assumed of the
  transmitter, which may hang for ever.
- `ClearsReleaseTree` has its conditions in the formula: calm from some moment
  on, clears issued again and again.

Deadlock is checked in every run but `registers` and `udp`, whose packets,
clocks and hangs are used up in the end; `Released` covers what could get stuck
in the latter.

## 4. Findings

`tftp_lost_error`: `tftp.c:206` notes a block as received before it is written and
does not take it back when the write fails. If the error reply is lost, the
client's repetition is acknowledged as a duplicate (`tftp.c:200`), the upload
goes on one block short, and the client is told of success.

Other places where code and documentation differ, met while modelling; the models
follow the code:

- `ospreyEVG.h:202` and `ospreyEVG.md:76` say that a cancel stops all banks;
  `ospreyEVGsequencer.v:366` stops the active one, and a bank that waits starts on
  the next edges with no new trigger.
- `mgt.c:208-210` says that the second reset has the clock "present from the
  beginning". The code waits for the lanes only: a clock that is switched or lost
  while that reset is under way leaves no trace, because the latch is still set
  from the first loss and `mgt.c:225` clears it. What does hold is
  `UnstruckResetIsClean`.
- A timer's divisor is kept in a signed word (`ospreyEVG.c:100`): one of 2^31 or more
  is accepted, but the timer does not start, as if it were too small. And a
  divisor reads back 2 less than was written.

## 5. Proofs

| Module | Theorem | For every |
| --- | --- | --- |
| `MpsProofs` | `TypeCorrect`, `LatchCorrect`, `TrippedCorrect`, `LastingFaultCorrect` | set of inputs, outputs, times |
| `MpsProofs` | `TripTypeCorrect`, `TripCorrect`, `ClearCorrect` | tree of any shape and depth, window, disturbances |
| `SequencerProofs` | `TypeCorrect`, `StartsCorrect`, `PlaysTablesCorrect` | number of banks, capacity, gaps, sources, commands |
| `FileServerProofs` | `TypeCorrect`, `HandlesCorrect`, `StashCorrect` | table of files, sector size, memory, values, last block number |
| `TransferProofs` | `SentCorrect`, `FetchedCorrect` | the same, and files sent, sessions, restarts, packets under way |
| `MgtProofs` | `TypeCorrect`, `LanesWaitedForCorrect`, `UnstruckResetIsCleanCorrect`, `MisalignedIsDownCorrect`, `SettledLinkIsLeftCorrect` | number of lanes and of commas, receivers, inputs, length of resets and of waits |
| `ConsoleProofs` | `ConsoleConfirms`, `InputImplementsQueue`, `TypeCorrect`, `OutputCorrect`, `ScanCorrect` | buffer sizes, commands, datagrams, senders, raster, number of transceivers |
| `LeepProofs` | `ReferenceIsQuiet`, `TimersAreReasonable`, `PulsesAreAsAsked`, `TimesAreTrue`, `ReadsBackCorrect` | packets, number of timers, triggers, outputs, size of the log, ticks in a second, word width in {1, 4, 6, 8} |
| `UdpProofs` | `AnsweredAsOwedHolds`, `AtMostOnceHolds`, `UdpTypes` | registrations, requests, clients, capacities, number of polls |

Assumptions are the named `ASSUME`s of the modules: sizes are positive, files lie
inside the memory and need no more blocks than there are block numbers, paths
lead to the EVG along `Parent`. TLC evaluates them in every run. Six say more
about the code:

- `AlignedAssumption`: the parameters begin a sector. `SYSPARAM.dat` is at 15 MiB
  and the table is laid out for sectors of at most 64 KiB (`ffs.c:54-60`);
  with a larger sector an upload of the neighbour would erase them, which is the
  mutant of `StashSurvives`.
- `TargetAssumption`: the file of a transfer is not in the parameters' sector. The
  image of the whole flash is, and the node itself may write its parameters
  during the transfer.
- `UploadsAssumption`: only the last block of an upload is short, as TFTP has it,
  and it is not longer than block numbers of sixteen bits reach.
- `CodesAssumption`: code 0 is never logged, since an action, the one of logging
  included, can be given to events 1 to 254 only (`ospreyEVR.c:118`).
- `PacketsAssumption`: a name that has one address, such as `powerUp` or `refclk`
  (`epics.c:71-104`), is never accessed with a number other than 0.
- `StoredAssumption`: the flags in flash are some that a `debug` command has put
  there, or none.

- *Latch.* `FirstFaultIsFirst` speaks of what asked first since the last clear
  (history). It is inductive with the types and `TrippedUntilCleared`: before
  the first clear the record blames nothing, which is what the first clear
  starts from. `LastingFaultTrips` needs one clause for each synchronizer
  stage: after k bad edges the fault has come at least k stages far.
- *Trip.* The invariant says where on its way a trip is: a node tripped for k
  ticks shows in the transmitter, the receiver or the latch k stages further
  along its path. Each tick moves every clause on by one stage; induction is
  over ticks only, since the path is quantified inside the invariant.
- *Clear.* `OneClearSuffices` needs to know where the clear is and where trips
  still are. `ClearGoesDown`: a node has let go of its own latch once the clear
  has passed its depth, and its window is open from then on for as long as the
  round trip. `TripsLetGo`: a node whose subtree has had time to be released
  (`Released`, later for nodes nearer to the root) holds no trip from below.
  The window must still be open when a node's children are let go, which is the
  hypothesis. Depths come from paths by induction over their length, in the form
  of a set of natural numbers (`SetInduction`).
- *Sequencer types.* The address counter stays in range because the overflow
  flag tells on which side of the table it is while a bank plays, and it is zero
  otherwise; the gap counter because a gap ends below zero (`PlayInv`).
- *Starts.* No armed bank has just been withdrawn; an armed bank that does not
  run is licensed, and so is every triggered one (`LicenseInv`).
- *Tables.* The refinement of `SequencerService` has two halves. About the
  reference: the function in `FetchTick` exists and has the values its recursion
  says, by `SetInduction` over the entries, as have the facts that ticks only rise
  (`FetchTicksRise`), so that no two entries share one (`EventAtIs`), and where a
  table ends (`LastTickIs`). About the registers: `ServiceInv` relates the entry
  two below the address counter to the event being held, the prefetched word to
  the entry after it, and the gap counter to the tick. From both follows
  `DueWhileBusy`: on every tick the event output is the one due. The invariant
  was checked by TLC on the instance of `seq_play` first.
- *File service.* Neither theorem is inductive alone: the offset stays inside its
  file because an open file is the server's, and the server's file stays open
  because only a close sets the offset to `UINT32_MAX`. Lemmas state what
  `f_write` (`WriteResult`) and `sendBlock` (`SendResult`) leave behind.
- *Stash.* What is written or erased lies in the sectors of the open file, and as
  the parameters begin a sector, a file that does not hold them has no block in
  it before theirs; an erase happens only at a sector's first block
  (`OtherWrite`).
- *Transfers.* The invariant follows the session the client is in
  (`TransferInv`). The network keeps the order, so once the server has answered,
  nothing of an earlier session is on its way to it. During an upload one of four
  things is true: the server is writing, and `prevBlock` is how many blocks
  it holds (`Writing`); it restarted, and holds all that it acknowledged
  (`Reset`); or an error reply is under way, before the acknowledgement the
  client waits for (`Doomed`) or after it (`Dead`), and will end the session.
  The last two are why the theorems suppose that no error reply is lost
  (`~ErrorsLost`): `tftp_lost_error` shows that without it the property is false.
  During a download the buffer holds the block `prevBlock` of the file
  (`ReadingOn`), and repeated acknowledgements send it again without reading on.
  The invariant was checked by TLC on the instance of `tftp_transfer` before it
  was proved.

- *Lanes.* While lanes are read, one that was read and was not busy is done:
  only a soft reset can make it busy again, and none is issued in between
  (`ScanInv`).
- *Clean resets.* On its way to the end (`OnItsWay`) a sequence that no loss of
  the clock has struck has a clean reset behind it; outside a sequence the latch
  is set, about to be, or the last reset was clean (`CleanInv`). The second reset
  is needed because the first may begin without a clock.
- *Receivers.* `MisalignedIsDown` is inductive with the types: a wrong alignment
  brings no comma, and is only reached through bad characters. A link that has
  been up for two edges is in the synchronizer, so a machine that decides on a
  reset saw it down two edges ago (`LinkInv`).

- *Questions.* The handler that waits, the variables it will use and the question
  on the screen agree (`QuestionInv`): they are set where the question is asked,
  and while a handler waits no command runs.
- *Input.* The queue is what is behind the index. `BufferInv` bounds both; a
  datagram moves the queue to the front, a turn blanks one character before it,
  and output leaves it alone or has set `overrun` (`Carried`).
- *Output.* The buffer is a function of the number of unsent bytes (`Orderly`),
  so that nothing can be lost, repeated or swapped: each byte, and each flush
  inside a command, leads from one such state to another, by induction over the
  bytes written. An alarm that comes back while a datagram is sent leaves a
  state (`Loose`) that the reset of `txCount` makes orderly again; it has left
  the datagram and the input buffer as they were, or set `overrun`.
- *Scan.* `ScanInPlace` is not inductive. `Placed` adds what the scan counts by:
  the length of the plot determines the offsets (with the division lemma that
  takes a pixel's number back to its row and column), the error count of the
  first measurement is kept exactly while the second is pending, and only the
  scanned transceiver's run register is set, to the point being measured. It
  holds across a cancellation because the next scan begins with both empty.
- *Reference.* While one of the three calls is between its steps the output is
  off, and while it is on it comes from the input that the software remembers,
  by which `si570Write` decides whether it is in use (`ReferenceInv`).
- *Timers.* The hardware's code and divisor are the shadow copies, both checked
  before a start. While a timer runs, a code or a divisor that is out of range is
  refused and leaves both as they were; one of 2^31 or more is stored, and reads
  as negative in the copy, which is in the way of the next start only
  (`TimerInv`).
- *Pulses.* The first, full and last words that `setOutput` computes add up to
  the width asked for, by the division lemma for each word width.
- *Times.* `TimesInv` relates the reply so far to what the driver's static
  variables will show next (`Prepared`), and the parts of a read of the time that
  is under way to moments in the right order (`Reading`): the ticks were read
  between two looks at the seconds, and seconds that are equal at both are those
  in between (`SecondsRise`). The number of events told is a cardinality
  that each answer raises by one or leaves alone (`OneMore`). Of the log,
  `Reading` knows what a read under way has seen: its head, which the read will
  take, or nothing. So each event taken is the next one told, or is lost and was
  logged since the read looked (`OrderStep`). TLC checked the invariant on the
  instance of `registers`.
- *Register file.* Each cell of `RegisterFile` is held by one device
  (`HoldsApart`), so that the refinement is shown device by device: a write
  leaves every cell (`Kept`) or puts the adjusted value in the one that was
  written (`Put`), a read leaves them all, except for the pattern code that
  `Along` names, and tells the cell it shows. That the selectors and the shadow
  copies are not seen comes out of these lemmas. What remains is that a register
  which takes several looks is the next one to be answered (`CallInv`): its looks
  are stutters, its answer the access.
- *Answers.* Three requests are in play: the one that the server remembers, the
  one at hand and the one held by the hardware. The remembered reply is the
  right one for its nonce (`Remembered`), and nonces tell requests apart
  (`Distinct`); the receive buffer is the software's until it lets go (`Held`).

Every safety invariant, action property and refinement that a run checks is
proved. Only model-checked is all liveness (`ClearsReleaseTree`,
`TriggerIsServed`, `SessionEnds`, `LinksComeUp`, `ComesToRest`, `Released`).
Out of the prover's reach are liveness under fairness, `ENABLED` and
`RECURSIVE` operators; no module here declares one. Induction theorems that
take an operator cannot be instantiated by the provers; where an induction over
data is needed it is made with a set and the theorem that a set of natural
numbers has a least element (`SetInduction` in `MpsProofs`,
`SequencerProofs` and `ConsoleProofs`).

## 6. What is abstracted everywhere

Printing, debug flags and wording are left out, except how many bytes a console
command prints. Metastability is taken to be over after two synchronizer stages,
and a synchronized bit changes on one edge or the next by the interleaving of the
clocks. I2C and flash-bus transfers succeed, except writes to the memories of
`FileServer`: `QuietReference` in particular holds only while they do, since
nothing looks at the result (`mgtClkSwitch.c:66`).

## 7. Not modelled

`PROJECT.json` gives the reason for each component. In the modelled ones:

- the priority chain that serves the event sources one per tick, the countdown of
  the timers and the serial shift of the seconds: the two ends are modelled (the
  sequencer's event and the registers; the received time), the stream between
  them is not;
- registers that only show a value of another part, or that call `ioSelect`,
  `clockAdjust`, `localPPS` or `mgtReset`;
- patterns of an output driver, the overrun flag of the event log;
- console commands that show registers or pass a value to a device;
- several network interfaces, fast subscribers;
- what the registers of the event generator's clock domain do while their clock,
  which comes from the reference, is switched off or changes: `ReferenceClock`
  and `EvgDriver` do not touch each other;
- the setter of the required-links mask, which is fixed to the links in use.

Clock synchronisation is a control loop whose question is stability, which an
enumeration of bounded integers does not answer. The GNSS parser is not called
by `main.c`. Out of scope for good: the vendored network stack (`udpStack.v`), the
top level's wiring, build scripts and generated code, and read-only sensors
(`xadc.c`, displays of `iicFPGA.c`).

## 8. Order of the work and what is left

1. MPS: channel, tree, trip, clear; every safety property is proved. Left: the
   required-links mask as an action.
2. Sequencer with its abstract service; the refinement is proved. Left: the
   read-back registers and start counters.
3. File service, parameters, transfers; every safety property is proved.
4. Transceivers. Left: an abstract supervisor with two states that `MgtReset`
   implements; failing I2C transfers.
5. Console and eye scan; every safety property is proved. Left: the console as
   the command "ask, then do" of an abstract specification.
6. Register server; every safety property and the refinement are proved. Left: the
   remaining registers.
7. UDP and Modbus. Left: fast subscribers.
8. Event stream: timers, pending flags and priority in `ospreyEVG.v`, the
   heartbeat and the seconds shifted out by `tinyEVG` and received by `tinyEVR`.
   Not begun.
