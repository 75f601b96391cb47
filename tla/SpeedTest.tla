------------------------------ MODULE SpeedTest ------------------------------
(***************************************************************************)
(* speedTest (helloworld.c 363-398): for every entry of a table, reset the *)
(* FPGA, announce that many data blocks, look at its status once, send the *)
(* blocks by DMA, poll until the FPGA has an answer and fetch it.          *)
(*                                                                         *)
(* Composes ControlRegister (w_instruct, start_read_pulse) with AxiDma     *)
(* (dma_transmit_32, dma_recv_32 and the engine) and gives the FPGA a      *)
(* protocol.  Register accesses map and unmap their page and use the       *)
(* address of a failed mmap (AXI/AXI_IO.c 83-113); recv_data points        *)
(* anywhere (366).  Both kill the program, which may be started again and  *)
(* finds the FPGA as it was left.                                          *)
(***************************************************************************)
EXTENDS ControlRegister

CONSTANTS speed_table,        \* block numbers (15 of them, 75 .. 1)
          WORDS_PER_BLOCK,    \* 20
          TX_WORDS, RX_WORDS, MaxCalls, MaxRestarts    \* of AxiDma

ASSUME SpeedAssumption ==
  /\ TX_WORDS \in Nat \ {0} /\ RX_WORDS \in Nat \ {0}
  /\ MaxCalls \in Nat /\ MaxRestarts \in Nat
  /\ speed_table \in Seq(Nat \ {0}) /\ speed_table # <<>>
  /\ WORDS_PER_BLOCK \in Nat \ {0}
  /\ \A i \in DOMAIN speed_table :
       /\ speed_table[i] < INSTRUCT
       /\ speed_table[i] * WORDS_PER_BLOCK <= TX_WORDS
       /\ speed_table[i] * WORDS_PER_BLOCK <= RX_WORDS

VARIABLES       \* of AxiDma
  pc, op, words, calls, recvd, restarts, sent, orphan,
  tx_packet, rx_packet, halted, ioc, left, length,
  fpgaIn, pulsed, fpgaOut, packet

VARIABLES
  at,           \* where speedTest is
  testnum,      \* 1 for the first test
  up,           \* the FPGA has carried out the last reset
  stored,       \* words it has taken for the blocks announced
  rd_ready      \* status bit 8: the answer can be read

(* Its callers come from here. *)
D == INSTANCE AxiDma WITH MaxItems <- 0

cpu  == <<pc, op, words, calls, recvd, restarts, sent, orphan>>
dma  == <<cpu, tx_packet, rx_packet, halted, ioc, left, length, fpgaIn, pulsed, fpgaOut, packet>>
test == <<at, testnum>>
fpga == <<up, stored, rd_ready>>
vars == <<register, dma, test, fpga>>

(* recv_upper_data, as many words of it as n blocks have, other ones every  *)
(* time the program is started; and the FPGA's answer to some words.        *)
Data(n) == [i \in 1 .. n * WORDS_PER_BLOCK |-> 100 * restarts + i]
Answer(ws) == [i \in DOMAIN ws |-> 1000 + ws[i]]
datablock == speed_table[testnum]

(* Status bit 7, as lines 378-382 take it: 0 when the FPGA awaits words. *)
wr_busy == ~up \/ stored # <<>> \/ rd_ready

Init ==
  /\ RegisterInit /\ D!Init
  /\ at = "reset" /\ testnum = 1
  /\ up \in BOOLEAN /\ stored = <<>> /\ rd_ready = FALSE

-----------------------------------------------------------------------------
(* speedTest.  It moves while no transfer function runs. *)

Step(from, to) == pc = "caller" /\ at = from /\ at' = to /\ UNCHANGED testnum

(* Next to it, the reset left out. *)
no_reset ==
  /\ Step("reset", "announce")
  /\ UNCHANGED <<command, w_vars, dma, up, stored, rd_ready>>

ResetFpga ==
  /\ Step("reset", "announce")
  /\ set_Reg(RESET) /\ up' = FALSE
  /\ UNCHANGED <<w_vars, dma, stored, rd_ready>>

Announce ==
  /\ Step("announce", "instruct")
  /\ w_instruct(datablock)
  /\ UNCHANGED <<dma, fpga>>

CopyBit ==
  /\ Step("instruct", "instruct")
  /\ InstructBit
  /\ UNCHANGED <<dma, fpga>>

WriteInstruct ==
  /\ Step("instruct", "look")
  /\ InstructWrite
  /\ UNCHANGED <<dma, fpga>>

(* One look at the status, then send, or receive, or neither. *)
Look ==
  /\ Step("look", "poll")
  /\ IF ~wr_busy THEN D!Call("dma_transmit_32", "fill", Data(datablock))
     ELSE IF rd_ready THEN D!Call("dma_recv_32", "pulse", <<>>)
     ELSE UNCHANGED dma
  /\ UNCHANGED <<register, fpga>>

(* Next to it, the loop left at once, and the loop on the other bit. *)
no_poll ==
  /\ Step("poll", "got")
  /\ D!Call("dma_recv_32", "pulse", <<>>)
  /\ UNCHANGED <<register, fpga>>

poll_bit_7 ==
  /\ Step("poll", "got") /\ ~wr_busy
  /\ D!Call("dma_recv_32", "pulse", <<>>)
  /\ UNCHANGED <<register, fpga>>

(* The loop at 387 leaves with bit 8 set. *)
Poll ==
  /\ Step("poll", "got") /\ rd_ready
  /\ D!Call("dma_recv_32", "pulse", <<>>)
  /\ UNCHANGED <<register, fpga>>

NextTest ==
  /\ pc = "caller" /\ at = "got"
  /\ IF testnum < Len(speed_table)
     THEN at' = "reset" /\ testnum' = testnum + 1
     ELSE at' = "done" /\ UNCHANGED testnum
  /\ UNCHANGED <<register, dma, fpga>>

(* start_read_pulse: to 0, where the register is not 0 already; the pulse,  *)
(* which the FPGA sees; and back to 0.                                      *)
PulseBegins ==
  /\ pc = "pulse" /\ command # 0
  /\ PulseLow
  /\ UNCHANGED <<dma, test, fpga>>

ReadPulse ==
  /\ D!StartReadPulse /\ command = 0
  /\ PulseHigh
  /\ UNCHANGED <<test, fpga>>

Pulsing == pc = "rx_memset" /\ command = READ

PulseEnds ==
  /\ Pulsing
  /\ PulseLow
  /\ UNCHANGED <<dma, test, fpga>>

Transfer == ~Pulsing /\ D!Serve /\ UNCHANGED <<register, test, fpga>>

Program ==
  \/ ResetFpga \/ Announce \/ CopyBit \/ WriteInstruct \/ Look \/ Poll \/ NextTest
  \/ PulseBegins \/ ReadPulse \/ PulseEnds \/ Transfer

(* A register access through a failed mmap. *)
AccessesRegister ==
  \/ pc = "caller" /\ at \in {"reset", "look", "poll"}
  \/ pc = "caller" /\ at = "instruct" /\ ~Copying
  \/ pc = "pulse" \/ Pulsing

Killed ==
  /\ AccessesRegister \/ pc = "rx_copy"
  /\ D!Dies
  /\ UNCHANGED <<register, test, fpga>>

Restart ==
  /\ D!Restart
  /\ at' = "reset" /\ testnum' = 1
  /\ num' = 0 /\ binary' = 0 /\ bitPos' = 0 /\ asked' = 0
  /\ UNCHANGED <<command, fpga>>

-----------------------------------------------------------------------------
(* Engine and FPGA. *)

FpgaReset ==
  /\ ~up /\ up' = TRUE
  /\ stored' = <<>> /\ rd_ready' = FALSE
  /\ pulsed' = FALSE /\ fpgaOut' = <<>>
  /\ UNCHANGED <<register, test, cpu, tx_packet, rx_packet, halted, ioc, left, length,
                 fpgaIn, packet>>

FpgaTakes ==
  /\ D!MM2SWord
  /\ stored' = Append(stored, D!MM2SWordOut)
  /\ UNCHANGED <<register, test, up, rd_ready>>

(* It answers once it has all the words of the number of blocks announced. *)
FpgaProcess ==
  /\ up /\ ~rd_ready
  /\ command \div INSTRUCT = 1
  /\ stored # <<>> /\ Len(stored) = (command % INSTRUCT) * WORDS_PER_BLOCK
  /\ rd_ready' = TRUE
  /\ UNCHANGED <<register, dma, test, up, stored>>

FpgaAnswer ==
  /\ up /\ pulsed /\ rd_ready /\ fpgaOut = <<>>
  /\ packet' = Answer(stored) /\ fpgaOut' = Answer(stored)
  /\ pulsed' = FALSE /\ stored' = <<>> /\ rd_ready' = FALSE
  /\ UNCHANGED <<register, test, cpu, tx_packet, rx_packet, halted, ioc, left, length,
                 fpgaIn, up>>

FpgaSends == D!S2MMWord /\ UNCHANGED <<register, test, fpga>>
DmaError  == D!DmaError /\ UNCHANGED <<register, test, fpga>>

Next ==
  \/ Program \/ Killed \/ Restart
  \/ FpgaReset \/ FpgaTakes \/ FpgaProcess \/ FpgaAnswer \/ FpgaSends \/ DmaError

Spec == Init /\ [][Next]_vars

(* Program, engine and FPGA go on; errors and restarts need not happen. *)
FairSpec ==
  /\ Spec
  /\ WF_vars(Program)
  /\ WF_vars(FpgaReset) /\ WF_vars(FpgaTakes) /\ WF_vars(FpgaProcess)
  /\ WF_vars(FpgaAnswer) /\ WF_vars(FpgaSends)

-----------------------------------------------------------------------------
(* Each variable within its range.  The functions below check no length;    *)
(* what speedTest hands them never goes beyond tx_packet (380).             *)
TypeOK ==
  /\ D!TypeOK
  /\ Len(words) <= TX_WORDS /\ length["MM2S"] <= TX_WORDS
  /\ at \in {"reset", "announce", "instruct", "look", "poll", "got", "done"}
  /\ testnum \in DOMAIN speed_table
  /\ command \in 0 .. 2 * INSTRUCT - 1 \/ command \in {READ, RESET}
  /\ {num, binary, asked} \subseteq Nat /\ bitPos \in 0 .. BITS
  /\ up \in BOOLEAN /\ rd_ready \in BOOLEAN /\ stored \in Seq(Nat)

(* As long as the FPGA needs it the register holds this test's number of    *)
(* blocks: w_instruct puts it there bit by bit (345-351), neither the reset *)
(* before nor start_read_pulse, which writes 0 over it (fc_hal.c 92-94),    *)
(* takes it away while blocks are loading or being processed.               *)
CommandStands ==
  up /\ at \in {"poll", "got"} /\ stored # <<>> /\ ~rd_ready => Announces(datablock)

(* What a test fetches is the FPGA's answer to its own words, whole:        *)
(* nothing of the test before, nor of a program killed in the middle of     *)
(* its own, whose rest the reset of line 373 clears.                        *)
ReturnsThisTest ==
  pc = "caller" /\ at = "got" => recvd = Answer(Data(datablock))

(* The test comes to its end, or it is killed, or a transfer waits on a     *)
(* channel that has stopped, or it starves: its single look (377) came      *)
(* before the FPGA awaited words, so none were sent, and it polls or waits  *)
(* for an answer to nothing.                                                *)
Starves ==
  /\ \/ at = "poll" /\ pc = "caller"
     \/ pc = "rx_wait" /\ ~ioc["S2MM"]
  /\ stored = <<>> /\ ~rd_ready /\ fpgaOut = <<>>
SpeedTestEnds ==
  pc = "caller" ~> at = "done" \/ pc = "dead" \/ D!WaitsForEver \/ Starves

(* The interaction of a test comes to its end (361), or the program is      *)
(* killed, or a transfer waits on a channel that has stopped.               *)
InteractionEnds == pc = "caller" ~> at = "done" \/ pc = "dead" \/ D!WaitsForEver

(* What SpeedTestEnds rests on: but for the waits it excepts, whoever the   *)
(* test waits for has what it needs.  The poll (387) finds the bit, or the  *)
(* FPGA holds just the words of the number it was told; the wait for the    *)
(* answer has a transfer under way and a pulse that the FPGA can answer.    *)
TestIsServed ==
  /\ pc = "tx_wait" => ioc["MM2S"] \/ left["MM2S"] > 0 \/ halted["MM2S"]
  /\ pc = "rx_wait" /\ up =>
       \/ ioc["S2MM"] \/ halted["S2MM"] \/ Starves
       \/ (left["S2MM"] > 0 /\ (fpgaOut # <<>> \/ (pulsed /\ rd_ready)))
  /\ at = "poll" /\ pc = "caller" /\ up =>
       rd_ready \/ Starves \/ (stored = Data(datablock) /\ Announces(datablock))
=============================================================================
