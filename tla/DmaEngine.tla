------------------------------ MODULE DmaEngine ------------------------------
(***************************************************************************)
(* The AXI DMA engine as the ARM sees it: two channels with the register   *)
(* driver of AXI/AXI_DMA.c on one side and a stream of 32-bit words on the *)
(* other, and the two packet buffers that CPU and engine share             *)
(* (DMA/dma_init.c).  Programs that use it extend this module: AxiDma and  *)
(* DmaLoopback.  Lengths are in words.                                     *)
(*                                                                         *)
(* The engine is a Xilinx core, external to the repository: it is known by *)
(* xaxidma.h and xaxidma_hw.h and by what the driver waits for.            *)
(***************************************************************************)
EXTENDS Integers, SequencesExt

CONSTANTS TX_WORDS,   \* TX_PKT_SIZE / 4 (2048)
          RX_WORDS    \* RX_PKT_SIZE / 4 (2048)

ASSUME DmaAssumption ==
  /\ TX_WORDS \in Nat \ {0}
  /\ RX_WORDS \in Nat \ {0}

Channels == {"MM2S", "S2MM"}

VARIABLES
  tx_packet,    \* the mapped transmit buffer
  rx_packet,    \* the mapped receive buffer
  halted,       \* by channel, SR bit 0: not running, as reset and errors leave it
  ioc,          \* by channel, SR bit 12, IOC_Irq: a transfer completed
  left,         \* by channel, words still to move, 0 when no transfer is under way
  length        \* by channel, the length register: as given; S2MM: or as received

mem  == <<tx_packet, rx_packet>>
regs == <<halted, ioc, left, length>>

Zeros(n) == [i \in 1 .. n |-> 0]

(* A word of the memory behind the transmit buffer: one that nobody sends. *)
Behind == 9

Busy(c)  == left[c] > 0

EngineTypeOK ==
  /\ tx_packet \in [1 .. TX_WORDS -> Nat] /\ rx_packet \in [1 .. RX_WORDS -> Nat]
  /\ halted \in [Channels -> BOOLEAN] /\ ioc \in [Channels -> BOOLEAN]
  /\ left \in [Channels -> Nat] /\ length \in [Channels -> Nat]
  /\ length["S2MM"] <= RX_WORDS
  /\ \A c \in Channels : left[c] <= length[c]

(* Flags as an earlier program left them, and no transfer under way. *)
EngineInit ==
  /\ tx_packet = Zeros(TX_WORDS) /\ rx_packet = Zeros(RX_WORDS)
  /\ halted \in [Channels -> BOOLEAN]
  /\ ioc \in [Channels -> BOOLEAN]
  /\ left = [c \in Channels |-> 0]
  /\ length = [c \in Channels |-> 0]

-----------------------------------------------------------------------------
(* Set-up. *)

(* TxRxMemoryMap and AXIDMABaseMemoryMap: both buffers and every register  *)
(* are overwritten with 0, which takes RS away from both channels; a       *)
(* transfer under way goes on until the reset that follows.                *)
MemoryMap ==
  /\ tx_packet' = Zeros(TX_WORDS)
  /\ rx_packet' = Zeros(RX_WORDS)
  /\ halted' = [c \in Channels |-> TRUE]
  /\ UNCHANGED <<ioc, left, length>>

(* Reset both, stop both, set the addresses, RS = 1 on both. *)
InitialAXIDMA ==
  /\ halted' = [c \in Channels |-> FALSE]
  /\ ioc' = [c \in Channels |-> FALSE]
  /\ left' = [c \in Channels |-> 0]
  /\ UNCHANGED <<length, mem>>

-----------------------------------------------------------------------------
(* Register accesses. *)

(* CR = 4.  The bit "resets the DMA engine": the other channel may be      *)
(* halted with this one.                                                   *)
ResetAXIDMA(c) ==
  \E cs \in {{c}, Channels} :
    /\ halted' = [d \in Channels |-> d \in cs \/ halted[d]]
    /\ ioc' = [d \in Channels |-> d \notin cs /\ ioc[d]]
    /\ left' = [d \in Channels |-> IF d \in cs THEN 0 ELSE left[d]]
    /\ UNCHANGED length

(* Next to the code, three slips: the interrupt bits written back as 0,    *)
(* the other channel's cleared, a length of one word too many.             *)
no_clear(c) == c \in Channels /\ UNCHANGED regs

clear_other_channel(c) ==
  /\ ioc' = [d \in Channels |-> d = c /\ ioc[d]]
  /\ UNCHANGED <<halted, left, length>>

length_plus_one(c, n) ==
  /\ left' = [left EXCEPT ![c] = IF halted[c] THEN 0 ELSE n + 1]
  /\ length' = [length EXCEPT ![c] = n]
  /\ UNCHANGED <<halted, ioc>>

(* SR is written back with the interrupt bits set, which clears them. *)
ClearAXIDMAInterrupt(c) ==
  /\ ioc' = [ioc EXCEPT ![c] = FALSE]
  /\ UNCHANGED <<halted, left, length>>

(* Writing a length starts a transfer on a running channel; 0 starts none. *)
SetTransferingBufferSize(c, n) ==
  /\ left' = [left EXCEPT ![c] = IF halted[c] THEN 0 ELSE n]
  /\ length' = [length EXCEPT ![c] = n]
  /\ UNCHANGED <<halted, ioc>>

-----------------------------------------------------------------------------
(* The engine moves one word at a step. *)

At(c) == length[c] - left[c] + 1

(* A length beyond the transmit buffer makes it read on behind it. *)
MM2SEnds == left["MM2S"] = 1
MM2SWordOut == IF At("MM2S") <= TX_WORDS THEN tx_packet[At("MM2S")] ELSE Behind

MM2SMoves ==
  /\ Busy("MM2S")
  /\ left' = [left EXCEPT !["MM2S"] = @ - 1]
  /\ ioc' = [ioc EXCEPT !["MM2S"] = @ \/ MM2SEnds]
  /\ UNCHANGED <<halted, length, mem>>

(* The packet's last word ends the transfer; the length register then      *)
(* holds the number of words received.                                     *)
S2MMMoves(word, last) ==
  /\ Busy("S2MM")
  /\ last \/ left["S2MM"] > 1
  /\ rx_packet' = [rx_packet EXCEPT ![At("S2MM")] = word]
  /\ left' = [left EXCEPT !["S2MM"] = IF last THEN 0 ELSE @ - 1]
  /\ ioc' = [ioc EXCEPT !["S2MM"] = @ \/ last]
  /\ length' = IF last THEN [length EXCEPT !["S2MM"] = At("S2MM")] ELSE length
  /\ UNCHANGED <<halted, tx_packet>>

(* "The DMA engine will halt on all error conditions" (xaxidma.h 335);     *)
(* IOC stays as it was.                                                    *)
Fault(c) ==
  /\ halted' = [halted EXCEPT ![c] = TRUE]
  /\ left' = [left EXCEPT ![c] = 0]
  /\ UNCHANGED <<ioc, length, mem>>
=============================================================================
