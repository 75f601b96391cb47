-------------------------- MODULE DmaEngine_proofs --------------------------
(***************************************************************************)
(* What the proofs about AxiDma and DmaLoopback share: every step of the   *)
(* engine and of its driver keeps the engine's types, for buffers of every *)
(* size.                                                                   *)
(***************************************************************************)
EXTENDS DmaEngine, TLAPS

LEMMA ChannelsAre == "MM2S" \in Channels /\ "S2MM" \in Channels /\ "MM2S" # "S2MM"
BY DEF Channels

LEMMA ZerosType ==
  ASSUME NEW n \in Nat PROVE Zeros(n) \in [1 .. n -> Nat]
BY DEF Zeros

Flags  == halted \in [Channels -> BOOLEAN] /\ ioc \in [Channels -> BOOLEAN]
Counts ==
  /\ left \in [Channels -> Nat] /\ length \in [Channels -> Nat]
  /\ length["S2MM"] <= RX_WORDS
  /\ left["MM2S"] <= length["MM2S"] /\ left["S2MM"] <= length["S2MM"]
Buffers == tx_packet \in [1 .. TX_WORDS -> Nat] /\ rx_packet \in [1 .. RX_WORDS -> Nat]

LEMMA EngineParts == EngineTypeOK <=> Flags /\ Counts /\ Buffers
BY DEF EngineTypeOK, Flags, Counts, Buffers, Channels

LEMMA EngineSame == EngineTypeOK /\ UNCHANGED <<mem, regs>> => EngineTypeOK'
BY DEF EngineTypeOK, mem, regs

-----------------------------------------------------------------------------
(* The engine's steps, and the driver's, keep the engine's types. *)

LEMMA MemoryMapType == EngineTypeOK /\ MemoryMap => EngineTypeOK'
<1> SUFFICES ASSUME EngineTypeOK, MemoryMap PROVE EngineTypeOK'
  OBVIOUS
<1>1. Buffers'
  BY ZerosType, DmaAssumption DEF MemoryMap, Buffers
<1>2. Flags'
  BY EngineParts DEF MemoryMap, Flags
<1>3. Counts'
  BY EngineParts DEF MemoryMap, Counts
<1> QED BY <1>1, <1>2, <1>3, EngineParts DEF EngineTypeOK, Flags, Counts, Buffers, Channels

LEMMA EnginePartsNext == Flags' /\ Counts' /\ Buffers' => EngineTypeOK'
BY DEF EngineTypeOK, Flags, Counts, Buffers, Channels

LEMMA InitialType == EngineTypeOK /\ InitialAXIDMA => EngineTypeOK'
<1> SUFFICES ASSUME EngineTypeOK, InitialAXIDMA PROVE EngineTypeOK'
  OBVIOUS
<1>1. Buffers'
  BY EngineParts DEF InitialAXIDMA, Buffers, mem
<1>2. Flags'
  BY DEF InitialAXIDMA, Flags
<1>3. Counts'
  BY EngineParts DEF InitialAXIDMA, Counts, Channels
<1> QED BY <1>1, <1>2, <1>3, EnginePartsNext

LEMMA ResetType ==
  ASSUME EngineTypeOK, NEW c \in Channels, ResetAXIDMA(c), UNCHANGED mem
  PROVE  EngineTypeOK'
<1>1. PICK cs \in {{c}, Channels} :
         /\ halted' = [d \in Channels |-> d \in cs \/ halted[d]]
         /\ ioc' = [d \in Channels |-> d \notin cs /\ ioc[d]]
         /\ left' = [d \in Channels |-> IF d \in cs THEN 0 ELSE left[d]]
         /\ UNCHANGED length
  BY DEF ResetAXIDMA
<1>2. Flags'
  <2>1. \A d \in Channels : halted[d] \in BOOLEAN /\ ioc[d] \in BOOLEAN
    BY DEF EngineTypeOK
  <2>2. \A d \in Channels : (d \in cs \/ halted[d]) \in BOOLEAN
    OBVIOUS
  <2>3. \A d \in Channels : (d \notin cs /\ ioc[d]) \in BOOLEAN
    OBVIOUS
  <2> QED BY <1>1, <2>2, <2>3, Zenon DEF Flags
<1>3. Counts'
  BY <1>1, EngineParts DEF Counts, Channels
<1>4. Buffers'
  BY EngineParts DEF Buffers, mem
<1> QED BY <1>2, <1>3, <1>4, EnginePartsNext

LEMMA ClearType ==
  ASSUME EngineTypeOK, NEW c \in Channels, ClearAXIDMAInterrupt(c), UNCHANGED mem
  PROVE  EngineTypeOK'
<1>1. Flags'
  BY DEF EngineTypeOK, ClearAXIDMAInterrupt, Flags
<1>2. Counts' /\ Buffers'
  BY EngineParts DEF ClearAXIDMAInterrupt, Counts, Buffers, mem
<1> QED BY <1>1, <1>2, EnginePartsNext

LEMMA LengthType ==
  ASSUME EngineTypeOK, NEW c \in Channels, NEW n \in Nat,
         c = "S2MM" => n <= RX_WORDS,
         SetTransferingBufferSize(c, n), UNCHANGED mem
  PROVE  EngineTypeOK'
<1>1. Flags' /\ Buffers'
  BY EngineParts DEF SetTransferingBufferSize, Flags, Buffers, mem
<1>2. Counts'
  BY EngineParts DEF SetTransferingBufferSize, Counts, Channels
<1> QED BY <1>1, <1>2, EnginePartsNext

LEMMA FaultType ==
  ASSUME EngineTypeOK, NEW c \in Channels, Fault(c)
  PROVE  EngineTypeOK'
<1>1. Flags'
  BY DEF EngineTypeOK, Fault, Flags
<1>2. Counts'
  BY EngineParts DEF Fault, Counts, Channels
<1>3. Buffers'
  BY EngineParts DEF Fault, Buffers, mem
<1> QED BY <1>1, <1>2, <1>3, EnginePartsNext

LEMMA MM2SType ==
  ASSUME EngineTypeOK, MM2SMoves
  PROVE  EngineTypeOK' /\ MM2SWordOut \in Nat
<1> USE ChannelsAre
<1>1. Flags'
  <2>1. (ioc["MM2S"] \/ MM2SEnds) \in BOOLEAN
    BY DEF MM2SEnds
  <2>2. ioc \in [Channels -> BOOLEAN] /\ halted \in [Channels -> BOOLEAN]
    BY DEF EngineTypeOK
  <2>3. ioc' = [ioc EXCEPT !["MM2S"] = ioc["MM2S"] \/ MM2SEnds] /\ halted' = halted
    BY DEF MM2SMoves
  <2> HIDE DEF MM2SEnds
  <2> QED BY <2>1, <2>2, <2>3 DEF Flags
<1>2. Counts'
  BY EngineParts DEF MM2SMoves, Busy, Counts, Channels
<1>3. Buffers'
  BY EngineParts DEF MM2SMoves, Buffers, mem
<1>4. At("MM2S") \in Nat /\ At("MM2S") >= 1
  BY EngineParts DEF MM2SMoves, Busy, Counts, At
<1>5. MM2SWordOut \in Nat
  <2>1. CASE At("MM2S") <= TX_WORDS
    <3>1. At("MM2S") \in 1 .. TX_WORDS
      BY <1>4, <2>1, DmaAssumption
    <3> QED BY <2>1, <3>1, EngineParts DEF MM2SWordOut, Buffers
  <2>2. CASE ~(At("MM2S") <= TX_WORDS)
    BY <2>2 DEF MM2SWordOut, Behind
  <2> QED BY <2>1, <2>2
<1> QED BY <1>1, <1>2, <1>3, <1>5, EnginePartsNext

LEMMA S2MMType ==
  ASSUME EngineTypeOK, NEW word \in Nat, NEW last \in BOOLEAN, S2MMMoves(word, last)
  PROVE  EngineTypeOK'
<1> USE ChannelsAre
<1>1. Flags'
  <2>1. (ioc["S2MM"] \/ last) \in BOOLEAN
    OBVIOUS
  <2>2. ioc \in [Channels -> BOOLEAN] /\ halted \in [Channels -> BOOLEAN]
    BY DEF EngineTypeOK
  <2>3. ioc' = [ioc EXCEPT !["S2MM"] = ioc["S2MM"] \/ last] /\ halted' = halted
    BY DEF S2MMMoves
  <2> QED BY <2>1, <2>2, <2>3 DEF Flags
<1>2. Counts'
  <2>1. Counts /\ Busy("S2MM")
    BY EngineParts DEF S2MMMoves
  <2>2. CASE last
    <3>1. At("S2MM") \in 1 .. length["S2MM"] /\ At("S2MM") \in Nat
      BY <2>1 DEF Counts, Busy, At
    <3>2. left' = [left EXCEPT !["S2MM"] = 0] /\ length' = [length EXCEPT !["S2MM"] = At("S2MM")]
      BY <2>2 DEF S2MMMoves
    <3> HIDE DEF At
    <3>3. left'["MM2S"] = left["MM2S"] /\ length'["MM2S"] = length["MM2S"]
          /\ left'["S2MM"] = 0 /\ length'["S2MM"] = At("S2MM")
      BY <2>1, <3>2 DEF Counts
    <3>4. left' \in [Channels -> Nat] /\ length' \in [Channels -> Nat]
      BY <2>1, <3>1, <3>2 DEF Counts
    <3> QED BY <2>1, <3>1, <3>3, <3>4, DmaAssumption DEF Counts
  <2>3. CASE ~last
    BY <2>1, <2>3 DEF S2MMMoves, Counts, Busy, At, Channels
  <2> QED BY <2>2, <2>3
<1>3. Buffers'
  BY EngineParts DEF S2MMMoves, Buffers
<1> QED BY <1>1, <1>2, <1>3, EnginePartsNext
=============================================================================
