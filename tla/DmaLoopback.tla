----------------------------- MODULE DmaLoopback -----------------------------
(***************************************************************************)
(* The loopback test (dma_tramsmit_test, DMA/dma_init.c 11-37, 168-216):   *)
(* one frame after another goes out on MM2S, through a FIFO in the FPGA    *)
(* and back on S2MM; the program counts wrong words in ber_num and frames  *)
(* in FrameCounter, which the SIGALRM handler reports and resets.          *)
(*                                                                         *)
(* Three actors: the program, the engine (DmaEngine) and the handler,      *)
(* which interrupts the program between any two of its steps.  The build   *)
(* is -O0 (Debug/src/subdir.mk): FrameCounter++ is a load and a store.     *)
(***************************************************************************)
EXTENDS DmaEngine

CONSTANTS MaxFrames,   \* bound: frames the test runs
          MaxFlips,    \* bound: words the loop corrupts
          FifoDepth    \* words the loop holds (external)

ASSUME LoopbackAssumption ==
  MaxFrames \in Nat /\ MaxFlips \in Nat /\ FifoDepth \in Nat \ {0}

VARIABLES
  pc,
  ber_num,
  FrameCounter,
  loaded,       \* FrameCounter as FrameCounter++ read it
  frames,       \* frames done
  alarm,        \* "off", "set" or, when SIGALRM is pending, "raised"
  fifo          \* the loop: words with their TLAST

VARIABLES       \* history
  flips,        \* words the loop corrupted
  since,        \* frames finished since the handler's last report
  kept          \* the count that report could not reset

meter == <<FrameCounter, loaded, frames, since, kept>>
vars  == <<pc, ber_num, meter, alarm, fifo, flips, mem, regs>>

Init ==
  /\ EngineInit
  /\ pc = "map"
  /\ ber_num = 0 /\ FrameCounter = 0 /\ loaded = 0 /\ frames = 0
  /\ alarm = "off" /\ fifo = <<>>
  /\ flips = 0 /\ since = 0 /\ kept = 0

-----------------------------------------------------------------------------
(* The program. *)

Goto(from, to) == pc = from /\ pc' = to /\ UNCHANGED <<alarm, fifo, flips>>

Map ==
  /\ \/ Goto("map", "init") /\ MemoryMap
     \/ Goto("map", "dead") /\ UNCHANGED <<mem, regs>>
  /\ UNCHANGED <<ber_num, meter>>

SetUp ==
  /\ Goto("init", "fill")
  /\ InitialAXIDMA
  /\ UNCHANGED <<ber_num, meter>>

(* tx_packet[i] = i, signal and alarm(1). *)
FillAndSetAlarm ==
  /\ pc = "fill" /\ pc' = "clear_s2mm"
  /\ tx_packet' = [i \in 1 .. TX_WORDS |-> i - 1]
  /\ alarm' = "set"
  /\ UNCHANGED <<ber_num, meter, fifo, flips, rx_packet, regs>>

(* StartDMATransfer: both interrupts, then both lengths, then both waits. *)
ClearS2MM ==
  /\ Goto("clear_s2mm", "clear_mm2s")
  /\ frames < MaxFrames
  /\ ClearAXIDMAInterrupt("S2MM")
  /\ UNCHANGED <<ber_num, meter, mem>>

ClearMM2S ==
  /\ Goto("clear_mm2s", "start_mm2s")
  /\ ClearAXIDMAInterrupt("MM2S")
  /\ UNCHANGED <<ber_num, meter, mem>>

StartMM2S ==
  /\ Goto("start_mm2s", "start_s2mm")
  /\ SetTransferingBufferSize("MM2S", TX_WORDS)
  /\ UNCHANGED <<ber_num, meter, mem>>

(* Next to it, the wait for MM2S moved before it. *)
wait_before_start ==
  /\ ioc["MM2S"] /\ Goto("start_s2mm", "wait_s2mm")
  /\ SetTransferingBufferSize("S2MM", RX_WORDS)
  /\ UNCHANGED <<ber_num, meter, mem>>

StartS2MM ==
  /\ Goto("start_s2mm", "wait_mm2s")
  /\ SetTransferingBufferSize("S2MM", RX_WORDS)
  /\ UNCHANGED <<ber_num, meter, mem>>

IsMM2SIOC ==
  /\ Goto("wait_mm2s", "wait_s2mm") /\ ioc["MM2S"]
  /\ UNCHANGED <<ber_num, meter, mem, regs>>

(* Next to it, the wait left out: what went out must have come back. *)
no_s2mm_wait ==
  /\ Goto("wait_s2mm", "compare")
  /\ UNCHANGED <<ber_num, meter, mem, regs>>

IsS2MMIOC ==
  /\ Goto("wait_s2mm", "compare") /\ ioc["S2MM"]
  /\ UNCHANGED <<ber_num, meter, mem, regs>>

(* FlushReceivingBuffer: the received words that differ, then the memset. *)
Wrong == {i \in 1 .. length["S2MM"] : rx_packet[i] # tx_packet[i]}

Compare ==
  /\ Goto("compare", "flush")
  /\ ber_num' = ber_num + Cardinality(Wrong)
  /\ UNCHANGED <<meter, mem, regs>>

Flush ==
  /\ Goto("flush", "load")
  /\ rx_packet' = Zeros(RX_WORDS)
  /\ UNCHANGED <<ber_num, meter, tx_packet, regs>>

(* FrameCounter++ *)
Load ==
  /\ Goto("load", "store")
  /\ loaded' = FrameCounter
  /\ UNCHANGED <<ber_num, FrameCounter, frames, since, kept, mem, regs>>

Store ==
  /\ Goto("store", "clear_s2mm")
  /\ FrameCounter' = loaded + 1
  /\ frames' = frames + 1 /\ since' = since + 1
  /\ UNCHANGED <<ber_num, loaded, kept, mem, regs>>

Program ==
  \/ Map \/ SetUp \/ FillAndSetAlarm
  \/ ClearS2MM \/ ClearMM2S \/ StartMM2S \/ StartS2MM \/ IsMM2SIOC \/ IsS2MMIOC
  \/ Compare \/ Flush \/ Load \/ Store

-----------------------------------------------------------------------------
(* The timer and the handler. *)

SIGALRM ==
  /\ alarm = "set" /\ alarm' = "raised"
  /\ UNCHANGED <<pc, ber_num, meter, fifo, flips, mem, regs>>

(* Next to SpeedCalculate, the reset and the next alarm(1) forgotten. *)
no_counter_reset ==
  /\ alarm = "raised" /\ alarm' = "set"
  /\ since' = 0 /\ kept' = IF pc = "store" THEN loaded ELSE 0
  /\ UNCHANGED <<pc, ber_num, FrameCounter, loaded, frames, fifo, flips, mem, regs>>

no_rearm ==
  /\ alarm = "raised" /\ alarm' = "off"
  /\ FrameCounter' = 0
  /\ since' = 0 /\ kept' = IF pc = "store" THEN loaded ELSE 0
  /\ UNCHANGED <<pc, ber_num, loaded, frames, fifo, flips, mem, regs>>

SpeedCalculate ==
  /\ alarm = "raised" /\ alarm' = "set"
  /\ FrameCounter' = 0
  /\ since' = 0 /\ kept' = IF pc = "store" THEN loaded ELSE 0
  /\ UNCHANGED <<pc, ber_num, loaded, frames, fifo, flips, mem, regs>>

-----------------------------------------------------------------------------
(* Engine and loop. *)

MM2SWord ==
  /\ Len(fifo) < FifoDepth
  /\ MM2SMoves
  /\ fifo' = Append(fifo, [word |-> MM2SWordOut, last |-> MM2SEnds])
  /\ UNCHANGED <<pc, ber_num, meter, alarm, flips>>

S2MMWord ==
  /\ fifo # <<>>
  /\ \E flip \in {0, 1} :
       /\ flips' = flips + flip /\ flips' <= MaxFlips
       /\ S2MMMoves(Head(fifo).word + flip, Head(fifo).last)
  /\ fifo' = Tail(fifo)
  /\ UNCHANGED <<pc, ber_num, meter, alarm>>

DmaError ==
  /\ \E c \in Channels : Busy(c) /\ Fault(c)
  /\ UNCHANGED <<pc, ber_num, meter, alarm, fifo, flips>>

Next == Program \/ SIGALRM \/ SpeedCalculate \/ MM2SWord \/ S2MMWord \/ DmaError

Spec == Init /\ [][Next]_vars

(* Time passes, a pending signal is delivered, and program, engine and loop *)
(* go on; errors need not happen.                                           *)
FairSpec ==
  /\ Spec
  /\ WF_vars(Program)
  /\ WF_vars(SIGALRM) /\ WF_vars(SpeedCalculate)
  /\ WF_vars(MM2SWord) /\ WF_vars(S2MMWord)

-----------------------------------------------------------------------------
(* Each variable within its range; the meter never shows more frames than   *)
(* the test has run.                                                        *)
TypeOK ==
  /\ EngineTypeOK
  /\ pc \in {"map", "init", "dead", "fill", "clear_s2mm", "clear_mm2s", "start_mm2s",
             "start_s2mm", "wait_mm2s", "wait_s2mm", "compare", "flush", "load", "store"}
  /\ {ber_num, FrameCounter, loaded, frames, flips, since, kept} \subseteq Nat
  /\ FrameCounter <= frames /\ loaded <= frames
  /\ alarm \in {"off", "set", "raised"}
  /\ fifo \in Seq([word : Nat, last : BOOLEAN]) /\ Len(fifo) <= FifoDepth

(* The error count of the test (ber_num, 196) is that of the loop: every    *)
(* corrupted word is counted once and no sound one is, in every frame.  It  *)
(* takes both clears (170-171) and both waits (178, 182): with a stale IOC  *)
(* the compare at 193 meets the zeros of the memset at 202 or a transfer    *)
(* that is still under way.                                                 *)
ErrorsAreReal == pc \in {"flush", "load", "store"} => ber_num = flips

(* The meter holds the frames finished since its last report, neither more  *)
(* nor fewer; except that a report between load and store of FrameCounter++ *)
(* loses its own reset (33, 214): the count that had been read then, and    *)
(* been reported, is counted again until the next report.                   *)
MeterCounts == pc # "store" => FrameCounter = since + kept

(* A frame that is started is compared, unless an error stopped a channel:  *)
(* the loop may hold fewer words than a frame has, so both transfers must   *)
(* be under way (173-175) before either is waited for.                      *)
FramesFinish ==
  pc = "clear_mm2s" ~> pc = "compare" \/ \E c \in Channels : halted[c]

(* What FramesFinish rests on: in both waits (178, 182), while no channel   *)
(* has stopped, the bit waited for is set or a word can move.  A full loop  *)
(* has its receiver, and the receiver a word to come: both transfers are    *)
(* under way, and each frame begins with an empty loop (182).               *)
FrameIsServed ==
  pc \in {"wait_mm2s", "wait_s2mm"} /\ (\A c \in Channels : ~halted[c]) =>
    \/ pc = "wait_mm2s" /\ ioc["MM2S"]
    \/ pc = "wait_s2mm" /\ ioc["S2MM"]
    \/ Busy("MM2S") /\ Len(fifo) < FifoDepth
    \/ Busy("S2MM") /\ fifo # <<>> /\ (Head(fifo).last \/ left["S2MM"] > 1)

(* The alarm goes off again and again (215), also when the program waits    *)
(* for ever on a channel that has stopped, unless the mapping had failed.   *)
ReportsGoOn == <>[](pc = "dead") \/ []<><<SpeedCalculate>>_vars
=============================================================================
