------------------------------- MODULE AxiDma -------------------------------
(***************************************************************************)
(* The DMA path between ARM and FPGA (DMA/dma_init.c over DmaEngine,       *)
(* dma_recv_32 with fc_hal/fc_hal.c): a program that sets the engine up    *)
(* and calls the transfer functions one after another, and the FPGA at the *)
(* other end of both streams.  The program may be killed anywhere and      *)
(* started again; engine and FPGA then go on as they are.                  *)
(*                                                                         *)
(* CPU and engine run concurrently and share tx_packet, rx_packet and the  *)
(* channel registers.  Every access of the CPU to one of these is a step   *)
(* of its own, the filling and clearing of a buffer included.              *)
(***************************************************************************)
EXTENDS DmaEngine

CONSTANTS MaxCalls,     \* bound: calls made, over all runs of the program
          MaxRestarts,  \* bound: times the program is started again
          MaxItems      \* bound: items a caller hands over in one call

ASSUME RelayAssumption == {MaxCalls, MaxRestarts, MaxItems} \subseteq Nat

VARIABLES
  pc,           \* where the CPU is, "caller" between two calls
  op,           \* the function it is in, or returned from last
  words,        \* what the call in progress has for tx_packet
  calls,        \* calls made so far
  recvd,        \* what the last dma_recv_32 copied to Recv_data
  restarts      \* times the program was started again

VARIABLES       \* the FPGA
  fpgaIn,       \* the words it took from the MM2S stream, since the engine's set-up
  pulsed,       \* a read pulse it has not answered yet
  fpgaOut,      \* the rest of its packet, offered to the S2MM stream
  packet        \* the packet it answered the last pulse with

VARIABLES       \* history
  sent,         \* the words of the send calls that returned, as the engine found them
  orphan        \* the receive may get what a killed program left in the FPGA

cpu    == <<pc, op, words, calls, recvd, restarts, sent, orphan>>
fpga   == <<fpgaIn, pulsed, fpgaOut, packet>>
vars   == <<cpu, mem, regs, fpga>>

(* Words are told apart by the call they belong to and their place in it. *)
Fresh(n) == [i \in 1 .. n |-> 10 * (calls + 1) + i]

(* dma_tramsmit and dma_tramsmit_DecOr put a zero after every item. *)
Padded(data) == [i \in 1 .. 2 * Len(data) |-> IF i % 2 = 1 THEN data[(i + 1) \div 2] ELSE 0]

Init ==
  /\ EngineInit
  /\ pc = "map" /\ op = "none"
  /\ words = <<>> /\ recvd = <<>> /\ sent = <<>>
  /\ calls = 0 /\ restarts = 0
  /\ fpgaIn = <<>> /\ fpgaOut = <<>> /\ packet = <<>>
  /\ pulsed = FALSE /\ orphan = FALSE

-----------------------------------------------------------------------------
(* dma_tramsmit_init, and the end of a program. *)

Dies ==
  /\ pc' = "dead"
  /\ UNCHANGED <<op, words, calls, recvd, restarts, sent, orphan, mem, regs, fpga>>

Map ==
  /\ pc = "map" /\ pc' = "init"
  /\ MemoryMap
  /\ UNCHANGED <<op, words, calls, recvd, restarts, sent, orphan, fpga>>

(* The memset after a failed mmap. *)
MapFails == pc = "map" /\ Dies

SetUp ==
  /\ pc = "init" /\ pc' = "caller"
  /\ InitialAXIDMA
  /\ fpgaIn' = <<>>
  /\ UNCHANGED <<op, words, calls, recvd, restarts, sent, orphan, pulsed, fpgaOut, packet>>

Restart ==
  /\ restarts < MaxRestarts
  /\ restarts' = restarts + 1
  /\ pc' = "map" /\ op' = "none"
  /\ words' = <<>> /\ recvd' = <<>> /\ sent' = <<>>
  /\ orphan' = (orphan \/ pulsed \/ fpgaOut # <<>>)
  /\ UNCHANGED <<calls, mem, regs, fpga>>

-----------------------------------------------------------------------------
(* The transfer functions. *)

Goto(step) == pc' = step /\ UNCHANGED <<op, words, calls, restarts, orphan>>

Call(f, first, ws) ==
  /\ pc = "caller" /\ calls < MaxCalls
  /\ op' = f /\ words' = ws /\ calls' = calls + 1
  /\ pc' = first
  /\ UNCHANGED <<recvd, restarts, sent, orphan, mem, regs, fpga>>

(* No function looks at send_num: any number may come, more words than      *)
(* tx_packet holds among them.                                              *)
CallTransmit32 == \E n \in 0 .. MaxItems : Call("dma_transmit_32", "fill", Fresh(n))
CallDecOr ==
  \E n \in 0 .. MaxItems : Call("dma_tramsmit_DecOr", "fill", Padded(Fresh(n)))
CallTramsmit ==
  \E n \in 0 .. MaxItems : Call("dma_tramsmit", "reset", Padded(Fresh(n)))
CallRecv32 == Call("dma_recv_32", "pulse", <<>>)

(* dma_tramsmit alone resets its channel first, and does not run it again. *)
Reset ==
  /\ pc = "reset" /\ Goto("fill")
  /\ ResetAXIDMA("MM2S")
  /\ UNCHANGED <<recvd, sent, mem, fpga>>

(* The words that do not fit go behind the mapping: the program dies there, *)
(* or goes on, in memory that is not modelled.                              *)
FillOverruns == pc = "fill" /\ Len(words) > TX_WORDS /\ Dies

Fill ==
  /\ pc = "fill" /\ Goto("tx_clear")
  /\ tx_packet' = [i \in 1 .. TX_WORDS |-> IF i <= Len(words) THEN words[i] ELSE tx_packet[i]]
  /\ UNCHANGED <<recvd, sent, rx_packet, regs, fpga>>

(* Next to it, the bit cleared while it is waited for, not before. *)
clear_late ==
  \/ pc = "tx_clear" /\ Goto("tx_length") /\ UNCHANGED <<recvd, sent, mem, regs, fpga>>
  \/ pc = "tx_wait" /\ ClearAXIDMAInterrupt("MM2S") /\ UNCHANGED <<cpu, mem, fpga>>

TxClear ==
  /\ pc = "tx_clear" /\ Goto("tx_length")
  /\ ClearAXIDMAInterrupt("MM2S")
  /\ UNCHANGED <<recvd, sent, mem, fpga>>

(* What the engine finds of the words handed over. *)
Held(ws) == [i \in DOMAIN ws |-> IF i <= TX_WORDS THEN ws[i] ELSE Behind]

(* Next to it, the wait commented out as in dma_tramsmit (line 95). *)
tx_no_wait ==
  /\ pc = "tx_length" /\ Goto("caller")
  /\ SetTransferingBufferSize("MM2S", Len(words))
  /\ sent' = sent \o Held(words)
  /\ UNCHANGED <<recvd, mem, fpga>>

(* dma_tramsmit returns as soon as the length is written (line 95). *)
TxLength ==
  /\ pc = "tx_length"
  /\ SetTransferingBufferSize("MM2S", Len(words))
  /\ IF op = "dma_tramsmit"
     THEN Goto("caller") /\ sent' = sent \o Held(words)
     ELSE Goto("tx_wait") /\ UNCHANGED sent
  /\ UNCHANGED <<recvd, mem, fpga>>

IsMM2SIOC ==
  /\ pc = "tx_wait" /\ ioc["MM2S"]
  /\ Goto("caller")
  /\ sent' = sent \o Held(words)
  /\ UNCHANGED <<recvd, mem, regs, fpga>>

(* start_read_pulse: 0, 1 << 8, 0 on the control register. *)
StartReadPulse ==
  /\ pc = "pulse" /\ pc' = "rx_memset"
  /\ pulsed' = TRUE
  /\ orphan' = (orphan /\ (pulsed \/ fpgaOut # <<>>))
  /\ UNCHANGED <<op, words, calls, recvd, restarts, sent, mem, regs, fpgaIn, fpgaOut, packet>>

RxMemset ==
  /\ pc = "rx_memset" /\ Goto("rx_clear")
  /\ rx_packet' = Zeros(RX_WORDS)
  /\ UNCHANGED <<recvd, sent, tx_packet, regs, fpga>>

RxClear ==
  /\ pc = "rx_clear" /\ Goto("rx_length")
  /\ ClearAXIDMAInterrupt("S2MM")
  /\ UNCHANGED <<recvd, sent, mem, fpga>>

RxLength ==
  /\ pc = "rx_length" /\ Goto("rx_wait")
  /\ SetTransferingBufferSize("S2MM", RX_WORDS)
  /\ UNCHANGED <<recvd, sent, mem, fpga>>

(* Next to it, the wait on the other channel's status register. *)
wait_on_mm2s ==
  /\ pc = "rx_wait" /\ ioc["MM2S"]
  /\ Goto("rx_copy")
  /\ UNCHANGED <<recvd, sent, mem, regs, fpga>>

IsS2MMIOC ==
  /\ pc = "rx_wait" /\ ioc["S2MM"]
  /\ Goto("rx_copy")
  /\ UNCHANGED <<recvd, sent, mem, regs, fpga>>

RxCopy ==
  /\ pc = "rx_copy" /\ Goto("caller")
  /\ recvd' = SubSeq(rx_packet, 1, length["S2MM"])
  /\ UNCHANGED <<sent, mem, regs, fpga>>

(* What the CPU does by itself, the read pulse apart; and what a caller    *)
(* makes it do.                                                            *)
Serve ==
  \/ Map \/ MapFails \/ SetUp
  \/ Reset \/ Fill \/ FillOverruns \/ TxClear \/ TxLength \/ IsMM2SIOC
  \/ RxMemset \/ RxClear \/ RxLength \/ IsS2MMIOC \/ RxCopy
Calls == CallTransmit32 \/ CallDecOr \/ CallTramsmit \/ CallRecv32

-----------------------------------------------------------------------------
(* Engine and FPGA. *)

MM2SWord ==
  /\ MM2SMoves
  /\ fpgaIn' = Append(fpgaIn, MM2SWordOut)
  /\ UNCHANGED <<cpu, pulsed, fpgaOut, packet>>

S2MMWord ==
  /\ fpgaOut # <<>>
  /\ S2MMMoves(Head(fpgaOut), Len(fpgaOut) = 1)
  /\ fpgaOut' = Tail(fpgaOut)
  /\ UNCHANGED <<cpu, fpgaIn, pulsed, packet>>

DmaError == (\E c \in Channels : Busy(c) /\ Fault(c)) /\ UNCHANGED <<cpu, fpga>>

(* A packet that does not end within the buffer is such an error. *)
S2MMOverrun ==
  /\ left["S2MM"] = 1 /\ Len(fpgaOut) > 1
  /\ Fault("S2MM")
  /\ UNCHANGED <<cpu, fpga>>

(* The FPGA answers a pulse with one packet; RX_WORDS + 1 is one too long. *)
FpgaAnswer ==
  /\ pulsed /\ fpgaOut = <<>>
  /\ pulsed' = FALSE
  /\ \E n \in 1 .. RX_WORDS + 1 :
       /\ packet' = [i \in 1 .. n |-> 1000 * calls + i]
       /\ fpgaOut' = packet'
  /\ UNCHANGED <<cpu, mem, regs, fpgaIn>>

Next ==
  \/ Calls \/ Serve \/ StartReadPulse \/ Restart
  \/ MM2SWord \/ S2MMWord \/ S2MMOverrun \/ DmaError \/ FpgaAnswer

Spec == Init /\ [][Next]_vars

(* The CPU runs, the engine moves what it was asked to move, the FPGA takes *)
(* words and answers pulses.  Errors, calls and restarts need not happen.   *)
FairSpec ==
  /\ Spec
  /\ WF_vars(Serve \/ StartReadPulse)
  /\ WF_vars(MM2SWord) /\ WF_vars(S2MMWord) /\ WF_vars(S2MMOverrun)
  /\ WF_vars(FpgaAnswer)

-----------------------------------------------------------------------------
SettingUp == {"map", "init", "dead"}
Steps == SettingUp \union {"caller", "reset", "fill", "tx_clear", "tx_length", "tx_wait",
          "pulse", "rx_memset", "rx_clear", "rx_length", "rx_wait", "rx_copy"}

(* Each variable within its range; S2MM is never told, nor left, to write    *)
(* beyond its buffer, nor taken to have (156, 162): its length register      *)
(* comes back with the size of a packet that may have been too long.         *)
TypeOK ==
  /\ EngineTypeOK
  /\ pc \in Steps
  /\ calls \in 0 .. MaxCalls /\ restarts \in 0 .. MaxRestarts
  /\ \A data \in {words, recvd, fpgaIn, fpgaOut, packet, sent} : data \in Seq(Nat)

(* What the FPGA took since the set-up is always a prefix of what this run  *)
(* of the program handed over, in the order of the calls; and as long as    *)
(* the channel runs, a call that returned has delivered every word: the     *)
(* wait for IOC (108, 122) tells the completion of this transfer from the   *)
(* one before it, and nothing of a killed program comes after the set-up.   *)
(* Of a call with more words than tx_packet holds, which nothing refuses,   *)
(* it gets those that fit and as many from behind the buffer as are over.   *)
InFlight == IF pc = "tx_wait" THEN sent \o Held(words) ELSE sent
FpgaGetsWhatWasSent == pc \notin SettingUp =>
  /\ IsPrefix(fpgaIn, InFlight)
  /\ pc = "caller" /\ ~halted["MM2S"] => fpgaIn = sent

(* dma_recv_32 returns the packet the FPGA answered its own pulse with,     *)
(* whole: no zeros of its memset, nothing of an earlier packet, the length  *)
(* read after the transfer and not before it (150-165).  A program killed   *)
(* in a receive leaves the FPGA with the rest, which no set-up of the       *)
(* engine takes away: the next program's receives are off for as long as    *)
(* something of it is still there at their pulse, and right from then on.   *)
RecvReturnsWhole == pc = "caller" /\ op = "dma_recv_32" /\ ~orphan => recvd = packet

(* After its set-up the CPU never writes into a buffer whose channel is     *)
(* moving words: the loops at 101 and 114 and the memset at 154 find the    *)
(* transfer of the call before finished, and the resets at 43 and 85 stop   *)
(* it.                                                                      *)
NoBufferRace ==
  [][pc' # pc /\ pc # "map" => /\ tx_packet' # tx_packet => ~Busy("MM2S")
                               /\ rx_packet' # rx_packet => ~Busy("S2MM")]_vars

(* Every call returns, or it waits on a channel that was reset by           *)
(* dma_tramsmit or stopped by an error, or for a transfer of no words: the  *)
(* loops at AXI_DMA.c 183 and 212 look at nothing but IOC.                  *)
WaitsForEver ==
  \/ pc = "tx_wait" /\ (halted["MM2S"] \/ words = <<>>)
  \/ pc = "rx_wait" /\ halted["S2MM"]
CallsReturn == pc # "caller" ~> pc \in {"caller", "dead"} \/ WaitsForEver

(* What CallsReturn rests on: no wait has missed its wake-up.  While the    *)
(* CPU waits for IOC, the bit is set, or the transfer that will set it is   *)
(* under way with words to move, or, for a receive, asked of the FPGA: the  *)
(* bit is cleared (93, 106, 120, 155) before the length is written, and the *)
(* pulse is given (153) before the wait, whatever a killed program left.    *)
WaitsAreServed ==
  /\ pc = "tx_wait" => ioc["MM2S"] \/ Busy("MM2S") \/ WaitsForEver
  /\ pc = "rx_wait" =>
       ioc["S2MM"] \/ (Busy("S2MM") /\ (pulsed \/ fpgaOut # <<>>)) \/ WaitsForEver

(* "DMA send done" (printed at 96, 109): when a send call is over, the FPGA *)
(* has its words.                                                           *)
SendDoneMeansSent == pc = "caller" => fpgaIn = sent
=============================================================================
