# A verification project for ARM_Bridge

ARM_Bridge is the application on the ARM side of a Zynq: it relays data between a
PC (TCP) and an FPGA (AXI DMA and one control register). This directory holds
TLA+ modules of its components, the TLC configurations that check them, and
theorems about seven of them that TLAPS proves. File names below are relative to
`src/ARM_Bridge/src/`.

## Inventory

| Component | Code | State | Operations | Interacts with |
|---|---|---|---|---|
| Ring buffer | `helloworld.c` 69-166 | byte array, `write_idx`, `read_idx`, `count` | init, write, read (one byte), read_batch | called by `receive_data` and `main` |
| Session | `helloworld.c` 213-316, 476-526, 561-726 | `serverSocket`, `client`, heap frames, `rb` on the stack | `socket_init`, `socket_connect`, `respond_pc`, `resquest_data`, `receive_data`, `main` | the PC over a TCP stream; the ring buffer |
| Frames | `helloworld.c` 189-219 | none | a 3-byte packed command frame, the data frame with its payload | built and taken apart by the session |
| DMA transfer functions | `DMA/dma_init.c` 40-165 | `tx_packet`, `rx_packet` (memory shared with the engine) | `dma_tramsmit_init`, `dma_transmit_32`, `dma_tramsmit_DecOr`, `dma_tramsmit`, `dma_recv_32` | register driver, engine, FPGA |
| DMA register driver | `AXI/AXI_DMA.c` | control, status and length registers of both channels | reset, stop, run, clear, set length, wait for IOC or idle | the AXI DMA core |
| DMA loopback test | `DMA/dma_init.c` 11-37, 168-216 | `FrameCounter`, `rec_len`, `ber_num` | test loop, flush, SIGALRM handler | both channels; a signal handler |
| Control register | `fc_hal/fc_hal.c` | one 32-bit word shared with the FPGA | `set_Reg`, `read_Reg`, `start_read_pulse`, `start_send_res` | FPGA, `w_instruct`, `dma_recv_32` |
| Speed test | `helloworld.c` 338-398 | local | `w_instruct`, `speedTest` | control register, DMA functions |
| Looping socket helpers | `helloworld.c` 409-464 | local | `sendInt`, `send_command`, `recv_command` | a TCP socket |
| Memory mapping | `AXI/AXI_IO.c` | `/dev/mem` descriptor | map, one word access, unmap | every register access but the DMA's |

What is hard: the CPU and the DMA engine work on the same buffers at the same
time, with one sticky status bit between them; TCP cuts sends and receives
anywhere; nearly no result is looked at, so `main` continues through every
failure; two read operations of the ring buffer keep the same index by different
conventions; a signal handler and a loop share a counter.

What makes each component correct:

- ring buffer: it is a bounded FIFO; nothing unread is overwritten; the three
  redundant members agree;
- session: what is printed is what the PC sent, or at least what arrived, and
  never what did not; it ends; a failure is reported as one;
- DMA: words arrive once, whole and in order, both ways; a buffer is not touched
  under a transfer; every call returns;
- loopback and meter: errors counted are real, each frame is metered once (but for the race named under
  the runs);
- speed test and control register: each block size is announced as it is, a
  command is not wiped by another, the exchange does not get stuck;
- socket helpers: exactly one frame is sent or received, or -1 is returned.

## Modules

| Module | What it is | Extends or instantiates |
|---|---|---|
| `RingBuffer`, `ByteQueue` | the ring buffer, and the queue it promises to be | `RingBuffer` refines `ByteQueue` |
| `BridgeSession` | one run of `main` against a PC | instance of `RingBuffer` on its own variables |
| `DmaEngine` | the DMA core's two channels, the register driver, the shared buffers | - |
| `AxiDma` | the transfer functions against engine and FPGA | extends `DmaEngine` |
| `DmaLoopback` | the loopback test with its signal handler | extends `DmaEngine` |
| `ControlRegister` | the control register as the ARM writes it, `w_instruct` | - |
| `SpeedTest` | `speedTest` over register, DMA and FPGA | extends `ControlRegister`, instance of `AxiDma` |
| `StreamIO`, `ExactTransfer` | the looping socket helpers, and what they promise | `StreamIO` refines `ExactTransfer`, once per direction |
| `MCSpeedTest` | the table for the runs of the speed test | extends `SpeedTest` |
| `MCControlRegister` | the numbers for the run `instruct_limit` | extends `ControlRegister` |
| `*_proofs` | the theorems, beside the module they are about | extends that module and `TLAPS` |

Operators whose name says what is wrong with them (`no_poll`, `length_plus_one`)
stand next to the definition they are a slip of. No specification uses them; each
shows that some property notices the slip.

**`RingBuffer`** models the struct and its four operations, one operator each,
with the code's member names. A pointer and a length are one sequence (a NULL
pointer and length 0 are refused alike). `ByteAt(BUFFER_SIZE)` is the byte after
the array, which in this struct is the low byte of `write_idx`: the read at line
124 can reach it. `result` is the caller's view of the last call. Four callers
are specified: `Spec` mixes everything, `CarefulSpec` never takes a single byte
while `read_idx` rests at `BUFFER_SIZE`, `ByteCallerSpec` and `BatchCallerSpec`
use one of the two read operations throughout (`main` is of the last kind).

**`ByteQueue`** is what a ring buffer promises: a queue of at most `Capacity`
bytes; a call appends all its bytes, removes the oldest, or is refused, and it is
refused only when it has to be. `RingBuffer!IsByteQueue` is the refinement, with
`queue <- Contents`, the unread bytes read off the array: of every caller's calls, each is an operation of
the queue, except a single read while `read_idx` rests at `BUFFER_SIZE`.

**`BridgeSession`** models one run of `main`, one action per call (`respond_pc` is
two, before and after its test of the command, and `receive_data` two, its first
`malloc` being over before `recv` blocks). It uses `RingBuffer` by
`INSTANCE` on its own variables, so `receive_data` runs the real
`ring_buffer_write` and `main` the real `ring_buffer_read_batch`. A byte of the
PC's stream is its position in the stream, hence any shift or loss can be seen in
what is printed; `Junk` is uninitialised memory. `recv` returns any part of what
was asked for and has arrived, `send` accepts any part; `malloc`, `socket`, `bind`,
`listen`, `accept` may fail; the PC may close, or reset and lose what is in
flight. The PC (`Pc*` actions) is external: it connects, sends its command, and
sends the data frame once it has read a whole request.

**`DmaEngine`** holds what every user of the DMA core shares. A channel is
`halted`, its sticky `ioc` bit, the words `left` to move and its `length` register;
`tx_packet` and `rx_packet` are the mapped buffers. The driver's functions are
operators (`ResetAXIDMA`, `ClearAXIDMAInterrupt`, `SetTransferingBufferSize`,
`InitialAXIDMA`, the mapping with its `memset`), the core's moves are `MM2SMoves`,
`S2MMMoves` and `Fault`. The core is external: it is modelled from `xaxidma.h` (a
reset leaves a channel not running and may take the other with it; every error
halts) and from what the driver waits for.

**`AxiDma`** models a program that sets the engine up and calls the transfer functions, the two
channels, and the FPGA at the other end of the streams. Each access of the CPU to a register or to a
shared buffer is a step, and the engine moves a word at a step, so they interleave everywhere. A
channel may fail at any word; the FPGA answers a read pulse with a packet of any length up to one
word too many. No function looks at how many items it is given, so callers hand over up to
`MaxItems`, more than `tx_packet` has room for: filling it may then kill the program, and if not,
the engine reads on behind the buffer (`Held`, `Behind`; what was there and is overwritten is not
modelled). The program may be killed at any step and started again (`Restart`; a failed `mmap` kills
it in the `memset`): the engine goes on with what it was told and the FPGA keeps what it has, until
the next set-up. `orphan` remembers that a killed program left a pulse or part of a packet behind,
which no set-up removes, until a read pulse finds the FPGA without any. The control register is not
part of this module: the pulse is here the one write that the FPGA answers.

**`DmaLoopback`** models `dma_tramsmit_test`: both channels started over one another,
a FIFO in the FPGA between them that may hold fewer words than a frame and may
corrupt some, the comparison and the `memset` of `FlushReceivingBuffer`, and
`SpeedCalculate`, which may come between any two steps. `FrameCounter++` is a load and
a store, as the `-O0` build makes it. `since` and `kept` record what the meter
should show.

**`ControlRegister`** has the register as one number, `set_Reg`, the writes of `start_read_pulse`
(`PulseLow`, `PulseHigh`), and `w_instruct`: one action per turn of its loop and one for the write.
`BITS` is the width of the block number (7). `RegisterSpec` is a program that announces any numbers
in any order, `SpeedTest` one that announces the entries of its table.

**`SpeedTest`** is the composition of the FPGA's protocol: `speedTest` between its calls,
`ControlRegister` for what it writes, the actions of `AxiDma` for the transfer functions and the
engine, and an FPGA that carries out a reset late, counts the words of the blocks announced, raises
its ready bit and answers a pulse. A read pulse is three writes, each a step at which the program
can be killed (`PulseBegins`, `ReadPulse`, `PulseEnds`). Every run of the program has words of its
own (`Data`), so an answer to an earlier run's words would be seen. Every register access maps and
unmaps its page (`AXI/AXI_IO.c`), and uses the address of a failed `mmap`; the copy in `dma_recv_32`
goes through an uninitialised pointer (line 366). Both may kill the program (`Killed`), and
`Restart` begins it anew.

**`StreamIO`** has `sendInt`, `send_command` and `recv_command`, an action per turn of
the loop, per return, and for the peer. `ExactTransfer` is the abstract side: a call
moves exactly one item, in order, or reports an error and has moved fewer bytes.
`Ints` (`sendInt`), `Frames` (`send_command`) and `In` (`recv_command`) are instances of it. The item of
the last two is a command frame of three bytes; `send_command` takes the size of a pointer instead, so
`Frames` is not implemented, which the run `send_command_frame` shows.

`main` initialises the DMA and then uses none of its functions (the calls are in
comments), so `BridgeSession` and `AxiDma` share no state and are not composed.

## Runs

| Run | Question | Result |
|---|---|---|
| `ring` | is every operation of every caller one of a FIFO, are the struct's members coherent and unread bytes safe? | holds |
| `ring_read_past_end` | does `ring_buffer_read` deliver the oldest byte? | violated |
| `session` | is what is printed what arrived, does `main` wait only for what the PC can send, and does it end? | holds |
| `session_short_read` | is a packet received whole the PC's data? | violated |
| `dma_relay` | do words cross once, whole, in order, without races, is what a call waits for under way, and do calls return, also after a kill? | holds |
| `dma_send_done` | does "DMA send done" mean sent? | violated |
| `dma_loopback` | are errors counted real, is the meter right, can a frame stick, do frames finish and reports go on? | holds |
| `speed_test` | does the number announced stand while it is needed, is the answer this test's, is what a test waits for under way, does it end? | holds |
| `speed_test_early_look` | does a test go on until an interaction is complete, as the comment at 361 says? | violated |
| `stream_io` | do `sendInt` and `recv_command` move exactly one item, or report an error, and does every call return? | holds |
| `send_command_frame` | does `send_command` send exactly a command frame, as 189-198 give it? | violated |
| `instruct_limit` | is every number up to the documented limit of 128 announced as what it is? | violated |

### What the violated runs show

- `ring_read_past_end`: fill the buffer, drain it in one batch (`read_idx` is now
  1024), write, call `ring_buffer_read`: it reads `buffer[1024]`, then goes to
  index 1. The oldest byte is never delivered. No caller in the repository mixes
  the two operations today.
- `session_short_read`: `respond_pc` accepts one byte as a frame; the two bytes
  left are the start of the next read, which is full, and so gives no warning.
- `dma_send_done`: `dma_tramsmit` resets the channel and never runs it again.
- `speed_test_early_look`: the status is read once, right after reset and announcement (373-377). When
  the FPGA has not carried out the reset by then, nothing is sent, and the loop at 387 polls for ever.
  That the FPGA may take so long is an assumption: nothing in the code waits for it.
- `send_command_frame`: line 426 takes `sizeof` of a pointer, 4 bytes here, for a frame of 3 (line 450,
  in `recv_command`, has it right).
- `instruct_limit`: seven bits hold 127. 128 is not called an error (339) and is announced as 0.

### What holds, and what the statements except

Some properties hold only with an exception, which they name:

- `IsByteQueue`: not a single read past the end (`ring_read_past_end` is about it). `UnreadIsKept`
  holds there too: what is still unread is not touched, but the byte taken away is not the one
  handed out.
- `RecvReturnsWhole`: not while, at its pulse, the FPGA still holds what a killed program left
  (`orphan`).
- `FpgaGetsWhatWasSent`: of a call with more words than the buffer holds, those that fit arrive, and
  then as many words from behind the buffer as were over.
- `CallsReturn` and `WaitsAreServed` (`AxiDma`): not for a wait on a halted channel, nor for a
  transfer of no words: the loops look at IOC alone.
- `MeterCounts`: a report between load and store of `FrameCounter++` loses its own reset, and its
  frames are reported again (`kept`).
- `AnnouncesAsked`: for numbers that 7 bits hold. 128 is the run `instruct_limit`; a number above it
  is called an error and its low bits are written all the same (339-351).
- `SpeedTestEnds`, `TestIsServed`: not when the one look at the status (377) came before the FPGA
  awaited words (`Starves`), which is the run `speed_test_early_look`; nor when a register access
  killed the program.
- `WritesExactly`: is about `sendInt`; `send_command` is the run `send_command_frame`.
- `ReadsExactly`: with -1 the bytes already taken are lost to the caller.
- `PrintedIsWhatCame`: allows uninitialised bytes where the packet fell short, and only there.
- `MainStops`, `WaitsAreAnswered`: not when a send was cut short (`SentShort`).

Where no run is named, the exception is what the code does and nothing in the repository denies. The
hazard behind it (junk printed, a wait without end, a lost reset) is not caught by the property but
described by it; the hazards in `PROJECT.json` say so in their notes. Two facts about `main` have no
run: it goes on when `socket_init` failed, against the comment at 473 (the session run shows that it
then ends and prints nothing), and it returns 0 after any failure, against the comment at 555.

### Bounds

- Ring: `BUFFER_SIZE = 4`, bytes of one bit, lengths 0..7. Every relation of
  either index to the end of the array occurs (before, exactly at, wrapped), with
  requests below, equal to and above the free space and the size, and sums that
  would wrap in 16 bits (`U16 = 8`). The theorems cover the rest.
- Session: `LEN = 3`, `BUFFER_SIZE = 4`. A frame of three bytes can be cut at every
  place, and a packet of six inside the header, at its end and inside the data.
  Requests larger than the ring are covered by the theorems.
- DMA: buffers of two words, three calls with up to three items each (`MaxItems`; padded, six words), one
  restart (`MaxCalls`, `MaxRestarts`): empty, partial and full transfers, calls that overrun the buffer, a
  packet that is too long, each pair of kinds of call
  with one before it that leaves its status bits behind, and a kill at every step.
  Words carry the number of their call.
- Loopback: frames of three words through a loop of two (`FifoDepth`), so that both
  channels must be under way; four frames (`MaxFrames`), the first with the flags an
  earlier program left, the others with its own; two corrupted words (`MaxFlips`).
- Speed test: three tests, numbers of two bits, one word per block, two restarts. The
  table descends as the code's does, so a stale answer is longer than the next; the
  call bound of 20 is never reached. `speed_test_early_look` needs no restart.
- Register: `instruct_limit` has the code's seven bits and calls `w_instruct` with 0 to 129.
- Helpers: sizes 4, 3 and 4 as on the 32-bit ARM, three calls, seven bytes from the
  peer: two whole frames and a part, every cut of each, calls after an error.

Deadlock checking is off where a run really stops: `main` ends or waits for a
silent PC, the DMA caller stops after `MaxCalls`, a wait after an error never
ends, a test is over, a receive waits for bytes. The ring runs check it.

### Fairness

- Session: weak fairness of `main` (a running process whose calls return when they
  can) and of the PC's connect, command and data, each only when the PC is able
  to. It need not close, sends may be cut short, and `MainStops` then excepts
  exactly the mutual wait that follows (`SentShort`).
- DMA: weak fairness of the CPU inside a call, of each channel while it has words
  to move, of an overrun being noticed, and of the FPGA answering a pulse. Calls,
  kills, restarts and other errors are not fair.
- Loopback: weak fairness of the program, of each channel, of time passing (`SIGALRM`)
  and of the delivery of a pending signal. Errors are not fair.
- Speed test: weak fairness of the program, of the engine and of the FPGA's own steps
  (reset, taking words, processing, answering). Kills, restarts, errors are not fair.
- Helpers: weak fairness of the loop: `send` accepts something in the end and `recv`
  returns what has arrived. Neither the peer nor errors are fair.

### What the models assume

- A reset of the engine is over when the next register is written; nothing in the
  repository waits for it or says how long it takes.
- The FPGA's protocol is read off lines 373-392: status bit 7 is set while it is not
  waiting for words, a reset not yet carried out included; bit 8 says that the answer
  can be read; bit 9 of the command resets it.
- The loop in the FPGA starts empty and keeps the mark of a frame's last word.
- The signal handler runs to its end before the program goes on.
- What an access through the uninitialised `recv_data` overwrites when it does not
  kill the program is not modelled.

## Proofs

Every theorem holds for all values of the constants that the named assumption of its
module admits. Each property was checked by TLC before it was proved.

**`RingBuffer_proofs`** (`BUFFER_SIZE < U16`, `SizeAssumption`; the code has 1024 and
65536):

- `TypeCorrect`, `Coherent`: `[]TypeOK` and `[]IndexCoherence` for a caller that mixes everything.
  The inductive invariant is `IInv == TypeOK /\ IndexCoherence`. Neither half is inductive alone:
  that a write keeps `write_idx` within the array needs the relation of the indices to `count`, and
  that relation needs the ranges to exclude a second wrap. The third disjunct of `IndexCoherence`
  (`write_idx` at the end, `read_idx` 0, empty) is the one that byte-wise draining produces.
- `UnreadKept`: no step disturbs an unread byte. Write, single read and batch read are shown to
  append to `Contents` or to drop from its front (`WriteAppends`, `AdvanceDrops`, `ReadBatchTakes`,
  `ReadTakes`).
- `ImplementsByteQueue`: of any caller's ring, the start is an empty `ByteQueue` and each operation,
  but for a single read past the end, is one of the queue's, step by step from the same lemmas,
  refusals included (`WriteRefused`, `ReadRefused`, `ReadBatchRefused`). Hence `CarefulGetsFifo`: a
  caller that never reads there has a queue.
- `ByteCallerGetsFifo`, `BatchCallerGetsFifo`: callers that use one read operation are careful. For
  bytes, `read_idx` stays inside the array; for batches there is nothing to show. So the use `main`
  makes of the ring is right.

**`BridgeSession_proofs`** (`SessionAssumption`: any `LEN` and `BUFFER_SIZE`, a request larger
than the ring included): `TypeCorrect`, `PrintsWhatCame`, `PrintsStored`. `IInv` says where
the data is at each place of `main`: nowhere, in the ring from its first slot on
(`RingHolds`), or in `printed`; and that ring and output are empty otherwise. Two lemmas
say what the one write into a fresh ring and the one batch read do (`WriteFresh`,
`ReadFirst`), the refused write of too long a request included. `NoMutualWait` is the safety
side of `MainStops`. Its invariant, `WaitInv`, says that an open PC has sent whole frames and
that on an open connection each recv took and each send sent a byte at least; so a recv that
finds nothing stands before a PC that has yet to send its command, or has a request to answer.

**`AxiDma_proofs`** (`DmaAssumption`, `RelayAssumption`: buffers of any sizes, any number of
calls and restarts, errors and kills anywhere) proves all five safety properties. The lemmas of the
receive path are stated on the FPGA's packet alone (`OwnPacket`), so that `SpeedTest_proofs` uses them:

- `TypeCorrect`: by way of `Flags`, `Counts` and `Buffers`, each kept by each operator of the driver
  and the engine (`DmaEngine_proofs`). It says nothing of the transmit buffer: no function checks
  what callers hand over. That `speedTest` stays within it is `TypeCorrect` of `SpeedTest_proofs`.
- `NoRace`: `RaceInv` says that a channel moves words only while the CPU waits for it, that a set
  IOC bit during the wait means this transfer is over, and that it was clear when the length was
  written. Without the last two the first is not inductive: a stale bit would end the wait early.
  `dma_tramsmit`, which does not wait, is safe only because its channel is halted, which is the last
  conjunct.
- `SendsWhatWasSent`: `SentInv` adds where each word is: what the FPGA took is a prefix of what was
  handed over, and on a running channel exactly `left` words are missing, which are the last ones of
  the buffer.
- `ReceivesWhole`: `RecvInv` follows the packet from the pulse to the copy (`Offered`, `Waiting`,
  `Moving`, `Received`): at every word it is split between buffer and stream.
- `NoLostWakeUp`: `ServedInv` says that in a wait the bit is set, the channel has words left to move
  or it halted, and that a receive's pulse or its packet is there from the pulse on. A transfer that
  ends sets the bit with its last word, and no clear comes after the length.

**`SpeedTest_proofs`** (`SpeedAssumption`: any table of numbers whose blocks fit both buffers,
any size of block, any number of restarts, kills and errors anywhere). The transfer
functions are `AxiDma`'s, so `AxiDma_proofs` is instantiated (`DP`) and its step lemmas are
cited; a few lemmas carry them over (`Here`, `TypeHere`). The packet now is the FPGA's answer.

- `TypeCorrect` (with the lengths handed to MM2S, `Fits`), `CommandCorrect`, `ReturnsOwnTest`, from
  one invariant, `Inv`, which TLC checked too. None of the three is inductive. `Places` ties the
  place in `speedTest` to the place in a transfer function; `Numbered` follows the number through
  `w_instruct` into the register. `LeftOver` bounds what a killed program leaves: a packet and
  stored words never together, and words still in the engine only until the set-up is over. `Clean`
  says that the reset of line 373, once the FPGA carried it out, took all of it away, and holds
  until the look at the status. From there a test is on one of three ways: `Sent`, its words are on
  their way or stored; `Fetching`, their answer is asked for or in the packet; or `Starved`: the
  look came before the reset was carried out, nothing is sent, and what must be shown is that such a
  test never fetches another's answer.
- `AnnouncesBlocks`: `w_instruct` writes what `speedTest` asks, from the lemmas of
  `ControlRegister_proofs` and `Numbered`.
- `NoVainWait`: whoever waits, waits for something under way, unless starved; from `Inv`.
- `NoRace`: `AxiDma`'s `NoBufferRace` for this caller and this FPGA.

**`DmaLoopback_proofs`** (`DmaAssumption`, `LoopbackAssumption`: any packet sizes, unequal ones
included, any depth of the loop, errors and corrupted words anywhere):

- `TypeCorrect`.
- `MeterCorrect`. `MeterCounts` says nothing between load and store; `MeterInv` adds that the
  value read is then what the meter will hold but for this frame.
- `CountsEveryError`. `ErrorsAreReal` is about three places after the compare; `LoopInv` follows
  the frame there. While `n` words have come back, the loop holds the next ones in order with
  the last of the frame marked, MM2S has the rest (`Carries`), and the words corrupted so far
  are `ber_num` and those that differ among the first `n` (`Counted`). An IOC bit seen in a wait
  is of this frame, and a failed channel keeps the program waiting. `LoopInv` was checked by TLC
  too.
- `NoFrameSticks`: while both channels run, a word can move or the bit waited for is set.
  `ServedInv` adds that words are conserved (`OnTheWay`: those come back, those in the loop and those
  MM2S has left make the frame, and at least one has yet to come back). It is stated for
  `TX_WORDS <= RX_WORDS`, which the code has (both sizes are equal, `dma_init.h` 22-23): a
  receiver for less than the frame stops at a word too many, an error `CountsEveryError` covers.

`DmaEngine_proofs` holds what this module and `AxiDma_proofs` share: that each step of engine
and driver keeps `EngineTypeOK`.

**`ControlRegister_proofs`** (`BITS` in 1..7, any number): `BitsKept`, the loop's invariant,
and from it `WritesWhatWasAsked`: what is written for a number below 2^BITS is the flag and
that number. It is about `RegisterSpec`, a program that announces any numbers;
`SpeedTest_proofs` proves the same of `speedTest`.

**`StreamIO_proofs`** (`StreamAssumption`: any sizes, calls and bytes): `TypeCorrect`,
`SendsExactly` (for `sendInt`), `ReceivesExactly`. Each direction has an invariant that says which bytes
of the stream the call in progress has moved; every step then maps to a stutter or, when
a call returns, to a step of `ExactTransfer`.

Only model-checked: liveness (`MainStops`, `CallsReturn` twice, `FramesFinish`, `ReportsGoOn`,
`SpeedTestEnds`), which is out of the prover's reach. The safety those rest on is proved:
`WaitsAreAnswered`, `WaitsAreServed`, `FrameIsServed` and `TestIsServed` say that whoever waits
has something coming, and fairness then brings it. `CallsReturn` of `StreamIO` and `ReportsGoOn`
have no such core worth stating. Every safety property of a passing run is proved.

## Not modelled

- The 73 headers in `include/` are Xilinx's standalone BSP: 22,500 of the 24,300 lines the
  repository has, of which the program includes only `xparameters.h`. They hold
  declarations and macros and no state, and there is nothing in them to model; the
  description of the core in `xaxidma.h` is used where it says what the core does. The
  program's own code has 1,541 lines, comments and code in comments included, and nearly
  all of what changes state in it is modelled.
- Functions with no caller: `IsMM2SIdle`, `IsS2MMIdle`, `RunAXIDMA*`, `start_send_res`,
  `dma_wr_data_num_read`, `read_slot`, the `fifo` functions and `Mmap`.
- Printing (`print_hex_buffer`, `PrintAXIDMAStatus`), but for which bytes are printed; the
  handler's `printf` inside an interrupted `printf` is the C library's matter.
- `Open_mem` and `Close_mem` keep a descriptor and no other state. The `Debug` tree is build
  output. Code in comments is not code.

## Plan

Done: the ring and its queue, the session, the DMA path with kills and restarts, the
loopback test and its meter, register and speed test, the socket helpers, and a proof of
every safety property a passing run checks. What is left:

- An abstract relay that `AxiDma` implements (words handed over, words delivered), so that
  `FpgaGetsWhatWasSent` and `RecvReturnsWhole` become one refinement, as for the ring and the
  socket helpers.
- A session that calls the speed test, when `main` does: today it calls none of the DMA functions.
