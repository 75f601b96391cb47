---------------------------- MODULE AxiDma_proofs ----------------------------
(***************************************************************************)
(* The DMA path for every size of the buffers and every number of calls    *)
(* and restarts: types, no buffer written under a transfer, what was sent  *)
(* and what was received, and no wait that misses its wake-up.             *)
(***************************************************************************)
EXTENDS AxiDma, DmaEngine_proofs, SequenceTheorems, TLAPS

-----------------------------------------------------------------------------
(* Types. *)

LEMMA FreshType ==
  ASSUME TypeOK, NEW n \in Nat
  PROVE  Fresh(n) \in Seq(Nat) /\ Len(Fresh(n)) = n
<1>1. calls \in Nat
  BY RelayAssumption DEF TypeOK
<1>2. \A i \in 1 .. n : 10 * (calls + 1) + i \in Nat
  BY <1>1
<1> QED BY <1>2 DEF Fresh

LEMMA PaddedType ==
  ASSUME NEW data \in Seq(Nat)
  PROVE  Padded(data) \in Seq(Nat) /\ Len(Padded(data)) = 2 * Len(data)
<1>1. Len(data) \in Nat /\ \A i \in 1 .. Len(data) : data[i] \in Nat
  OBVIOUS
<1>2. \A i \in 1 .. 2 * Len(data) :
        (IF i % 2 = 1 THEN data[(i + 1) \div 2] ELSE 0) \in Nat
  <2> TAKE i \in 1 .. 2 * Len(data)
  <2>1. CASE i % 2 = 1
    <3>1. (i + 1) \div 2 \in 1 .. Len(data)
      BY <1>1
    <3> QED BY <1>1, <2>1, <3>1
  <2>2. CASE i % 2 # 1
    BY <2>2
  <2> QED BY <2>1, <2>2
<1> QED BY <1>1, <1>2 DEF Padded

LEMMA CallTypes ==
  ASSUME TypeOK, Calls
  PROVE  /\ pc = "caller" /\ pc' \in {"fill", "reset", "pulse"}
         /\ words' \in Seq(Nat)
         /\ calls' \in 0 .. MaxCalls
         /\ UNCHANGED <<recvd, restarts, sent, orphan, mem, regs, fpga>>
         /\ op' = "dma_tramsmit" => pc' = "reset"
<1> USE DmaAssumption, RelayAssumption
<1>0. calls \in 0 .. MaxCalls
  BY DEF TypeOK
<1>1. CASE CallTransmit32
  <2>1. PICK n \in 0 .. MaxItems : Call("dma_transmit_32", "fill", Fresh(n))
    BY <1>1 DEF CallTransmit32
  <2> QED BY <1>0, <2>1, FreshType DEF Call
<1>2. CASE CallDecOr
  <2>1. PICK n \in 0 .. MaxItems : Call("dma_tramsmit_DecOr", "fill", Padded(Fresh(n)))
    BY <1>2 DEF CallDecOr
  <2>2. Padded(Fresh(n)) \in Seq(Nat)
    BY FreshType, PaddedType
  <2> QED BY <1>0, <2>1, <2>2 DEF Call
<1>3. CASE CallTramsmit
  <2>1. PICK n \in 0 .. MaxItems : Call("dma_tramsmit", "reset", Padded(Fresh(n)))
    BY <1>3 DEF CallTramsmit
  <2>2. Padded(Fresh(n)) \in Seq(Nat)
    BY FreshType, PaddedType
  <2> QED BY <1>0, <2>1, <2>2 DEF Call
<1>4. CASE CallRecv32
  <2>1. <<>> \in Seq(Nat)
    OBVIOUS
  <2> QED BY <1>0, <1>4, <2>1 DEF CallRecv32, Call
<1> QED BY <1>1, <1>2, <1>3, <1>4 DEF Calls

(* Of the words handed over the engine finds as many as were handed over. *)
LEMMA HeldIs ==
  ASSUME NEW ws \in Seq(Nat)
  PROVE  /\ Held(ws) \in Seq(Nat) /\ Len(Held(ws)) = Len(ws)
         /\ \A i \in 1 .. Len(ws) : Held(ws)[i] = IF i <= TX_WORDS THEN ws[i] ELSE Behind
<1>1. Len(ws) \in Nat /\ DOMAIN ws = 1 .. Len(ws) /\ \A i \in 1 .. Len(ws) : ws[i] \in Nat
  OBVIOUS
<1>2. \A i \in 1 .. Len(ws) : (IF i <= TX_WORDS THEN ws[i] ELSE Behind) \in Nat
  BY <1>1, DmaAssumption DEF Behind
<1>3. Held(ws) = [i \in 1 .. Len(ws) |-> IF i <= TX_WORDS THEN ws[i] ELSE Behind]
  BY <1>1 DEF Held
<1> HIDE DEF Held
<1> QED BY <1>1, <1>2, <1>3

(* The program's part of TypeOK, which engine steps leave alone. *)
CpuTypeOK ==
  /\ pc \in Steps
  /\ calls \in 0 .. MaxCalls /\ restarts \in 0 .. MaxRestarts
  /\ words \in Seq(Nat) /\ recvd \in Seq(Nat) /\ sent \in Seq(Nat)
FpgaTypeOK == fpgaIn \in Seq(Nat) /\ fpgaOut \in Seq(Nat) /\ packet \in Seq(Nat)

LEMMA TypeParts == TypeOK <=> EngineTypeOK /\ CpuTypeOK /\ FpgaTypeOK
BY DEF TypeOK, CpuTypeOK, FpgaTypeOK

LEMMA InitType == Init => TypeOK
<1> SUFFICES ASSUME Init PROVE TypeOK
  OBVIOUS
<1> USE DmaAssumption, RelayAssumption
<1>1. Flags /\ Buffers
  BY ZerosType DEF Init, EngineInit, Flags, Buffers
<1>2. Counts
  BY DEF Init, EngineInit, Counts, Channels
<1>3. CpuTypeOK /\ FpgaTypeOK
  BY DEF Init, CpuTypeOK, FpgaTypeOK, Steps, SettingUp
<1> QED BY <1>1, <1>2, <1>3, TypeParts, EngineParts

-----------------------------------------------------------------------------
(* The steps of the program. *)

CpuFpga == CpuTypeOK /\ FpgaTypeOK

LEMMA PartsNext == EngineTypeOK' /\ CpuTypeOK' /\ FpgaTypeOK' => TypeOK'
BY DEF TypeOK, CpuTypeOK, FpgaTypeOK

(* A step to another place that leaves recvd and sent alone. *)
LEMMA GotoType ==
  ASSUME CpuTypeOK, NEW step \in Steps, Goto(step), recvd' \in Seq(Nat), sent' \in Seq(Nat)
  PROVE  CpuTypeOK'
BY DEF Goto, CpuTypeOK

LEMMA SameType == FpgaTypeOK /\ UNCHANGED fpga => FpgaTypeOK'
BY DEF FpgaTypeOK, fpga

LEMMA SetUpType ==
  ASSUME TypeOK, Map \/ Dies \/ SetUp \/ Restart
  PROVE  TypeOK'
<1>0. EngineTypeOK /\ CpuTypeOK /\ FpgaTypeOK
  BY TypeParts
<1>1. EngineTypeOK'
  <2>1. CASE Map
    BY <1>0, <2>1, MemoryMapType DEF Map
  <2>2. CASE SetUp
    BY <1>0, <2>2, InitialType DEF SetUp
  <2>3. CASE Dies \/ Restart
    BY <1>0, <2>3, EngineSame DEF Dies, Restart
  <2> QED BY <2>1, <2>2, <2>3
<1>2. CpuTypeOK'
  <2>1. CASE Map \/ Dies \/ SetUp
    BY <1>0, <2>1 DEF Map, Dies, SetUp, CpuTypeOK, Steps, SettingUp
  <2>2. CASE Restart
    <3>1. restarts + 1 \in 0 .. MaxRestarts
      BY <1>0, <2>2, RelayAssumption DEF Restart, CpuTypeOK
    <3>2. <<>> \in Seq(Nat)
      OBVIOUS
    <3> QED BY <1>0, <2>2, <3>1, <3>2 DEF Restart, CpuTypeOK, Steps, SettingUp
  <2> QED BY <2>1, <2>2
<1>3. FpgaTypeOK'
  <2>1. CASE SetUp
    <3>1. fpgaIn' = <<>> /\ fpgaOut' = fpgaOut /\ packet' = packet
      BY <2>1 DEF SetUp
    <3>2. <<>> \in Seq(Nat)
      OBVIOUS
    <3> QED BY <1>0, <3>1, <3>2 DEF FpgaTypeOK
  <2>2. CASE Map \/ Dies \/ Restart
    BY <1>0, <2>2, SameType DEF Map, Dies, Restart
  <2> QED BY <2>1, <2>2
<1> QED BY <1>1, <1>2, <1>3, PartsNext

LEMMA SendType ==
  ASSUME TypeOK, Reset \/ Fill \/ TxClear \/ TxLength \/ IsMM2SIOC
  PROVE  TypeOK'
<1> USE ChannelsAre
<1>0. EngineTypeOK /\ CpuTypeOK /\ FpgaTypeOK
  BY TypeParts
<1>1. EngineTypeOK'
  <2>1. CASE Reset
    BY <1>0, <2>1, ResetType DEF Reset
  <2>2. CASE Fill
    <3>1. Flags' /\ Counts'
      BY <1>0, <2>2, EngineParts DEF Fill, regs, Flags, Counts
    <3>2. Buffers /\ words \in Seq(Nat) /\ Len(words) \in Nat /\ TX_WORDS \in Nat
      BY <1>0, EngineParts, DmaAssumption DEF CpuTypeOK
    <3>3. \A i \in 1 .. TX_WORDS :
            (IF i <= Len(words) THEN words[i] ELSE tx_packet[i]) \in Nat
      <4> TAKE i \in 1 .. TX_WORDS
      <4>1. CASE i <= Len(words)
        BY <3>2, <4>1
      <4>2. CASE ~(i <= Len(words))
        BY <3>2, <4>2 DEF Buffers
      <4> QED BY <4>1, <4>2
    <3>4. Buffers'
      BY <2>2, <3>2, <3>3 DEF Fill, Buffers
    <3> QED BY <3>1, <3>4, EnginePartsNext
  <2>3. CASE TxClear
    BY <1>0, <2>3, ClearType DEF TxClear
  <2>4. CASE TxLength
    <3>1. Len(words) \in Nat
      BY <1>0 DEF CpuTypeOK
    <3> QED BY <1>0, <2>4, <3>1, LengthType DEF TxLength
  <2>5. CASE IsMM2SIOC
    BY <1>0, <2>5, EngineSame DEF IsMM2SIOC
  <2> QED BY <2>1, <2>2, <2>3, <2>4, <2>5
<1>2. CpuTypeOK'
  <2>1. sent' = sent \/ sent' = sent \o Held(words)
    BY DEF Reset, Fill, TxClear, TxLength, IsMM2SIOC
  <2>4. sent \o Held(words) \in Seq(Nat) /\ sent \in Seq(Nat)
    BY <1>0, HeldIs, ConcatProperties DEF CpuTypeOK
  <2>5. recvd' = recvd /\ recvd \in Seq(Nat)
    BY <1>0 DEF CpuTypeOK, Reset, Fill, TxClear, TxLength, IsMM2SIOC
  <2>2. sent' \in Seq(Nat) /\ recvd' \in Seq(Nat)
    BY <2>1, <2>4, <2>5
  <2>3. PICK step \in {"fill", "tx_clear", "tx_length", "tx_wait", "caller"} : Goto(step)
    BY DEF Reset, Fill, TxClear, TxLength, IsMM2SIOC
  <2> QED BY <1>0, <2>2, <2>3, GotoType DEF Steps
<1>3. FpgaTypeOK'
  BY <1>0, SameType DEF Reset, Fill, TxClear, TxLength, IsMM2SIOC
<1> QED BY <1>1, <1>2, <1>3, PartsNext

LEMMA RecvType ==
  ASSUME TypeOK, StartReadPulse \/ RxMemset \/ RxClear \/ RxLength \/ IsS2MMIOC \/ RxCopy
  PROVE  TypeOK'
<1> USE ChannelsAre
<1>0. EngineTypeOK /\ CpuTypeOK /\ FpgaTypeOK
  BY TypeParts
<1>1. EngineTypeOK'
  <2>1. CASE StartReadPulse \/ IsS2MMIOC \/ RxCopy
    BY <1>0, <2>1, EngineSame DEF StartReadPulse, IsS2MMIOC, RxCopy
  <2>2. CASE RxMemset
    <3>1. Flags' /\ Counts'
      BY <1>0, <2>2, EngineParts DEF RxMemset, regs, Flags, Counts
    <3>2. Buffers'
      BY <1>0, <2>2, EngineParts, DmaAssumption, ZerosType DEF RxMemset, Buffers
    <3> QED BY <3>1, <3>2, EnginePartsNext
  <2>3. CASE RxClear
    BY <1>0, <2>3, ClearType DEF RxClear
  <2>4. CASE RxLength
    BY <1>0, <2>4, LengthType, DmaAssumption DEF RxLength
  <2> QED BY <2>1, <2>2, <2>3, <2>4
<1>2. CpuTypeOK'
  <2>1. sent' = sent
    BY DEF StartReadPulse, RxMemset, RxClear, RxLength, IsS2MMIOC, RxCopy
  <2>2. recvd' \in Seq(Nat)
    <3>1. CASE RxCopy
      <4>1. Counts /\ Buffers
        BY <1>0, EngineParts
      <4>2. length["S2MM"] \in Nat /\ length["S2MM"] <= RX_WORDS
        BY <4>1 DEF Counts
      <4>3. \A i \in 1 .. length["S2MM"] : rx_packet[i] \in Nat
        BY <4>1, <4>2, DmaAssumption DEF Buffers
      <4>4. SubSeq(rx_packet, 1, length["S2MM"]) = [i \in 1 .. length["S2MM"] |-> rx_packet[i]]
        BY <4>1, <4>2, DmaAssumption DEF Buffers
      <4> QED BY <3>1, <4>2, <4>3, <4>4 DEF RxCopy
    <3>2. CASE ~RxCopy
      BY <1>0, <3>2 DEF CpuTypeOK, StartReadPulse, RxMemset, RxClear, RxLength, IsS2MMIOC
    <3> QED BY <3>1, <3>2
  <2>3. sent' \in Seq(Nat)
    BY <1>0, <2>1 DEF CpuTypeOK
  <2>4. CASE StartReadPulse
    BY <1>0, <2>2, <2>3, <2>4 DEF StartReadPulse, CpuTypeOK, Steps
  <2>5. CASE ~StartReadPulse
    <3>1. PICK step \in {"rx_clear", "rx_length", "rx_wait", "rx_copy", "caller"} : Goto(step)
      BY <2>5 DEF RxMemset, RxClear, RxLength, IsS2MMIOC, RxCopy
    <3> QED BY <1>0, <2>2, <2>3, <3>1, GotoType DEF Steps
  <2> QED BY <2>4, <2>5
<1>3. FpgaTypeOK'
  BY <1>0 DEF FpgaTypeOK, fpga, StartReadPulse, RxMemset, RxClear, RxLength, IsS2MMIOC, RxCopy
<1> QED BY <1>1, <1>2, <1>3, PartsNext

LEMMA StreamType ==
  ASSUME TypeOK, MM2SWord \/ S2MMWord \/ S2MMOverrun \/ DmaError \/ FpgaAnswer
  PROVE  TypeOK'
<1> USE ChannelsAre
<1>0. EngineTypeOK /\ CpuTypeOK /\ FpgaTypeOK
  BY TypeParts
<1>1. UNCHANGED cpu => CpuTypeOK'
  BY <1>0 DEF CpuTypeOK, cpu
<1>2. UNCHANGED cpu
  BY DEF MM2SWord, S2MMWord, S2MMOverrun, DmaError, FpgaAnswer
<1>3. CASE MM2SWord
  <2>1. EngineTypeOK' /\ MM2SWordOut \in Nat
    BY <1>0, <1>3, MM2SType DEF MM2SWord
  <2>2. FpgaTypeOK'
    BY <1>0, <1>3, <2>1 DEF MM2SWord, FpgaTypeOK
  <2> QED BY <1>1, <1>2, <2>1, <2>2, PartsNext
<1>4. CASE S2MMWord
  <2>1. Head(fpgaOut) \in Nat /\ Tail(fpgaOut) \in Seq(Nat)
    BY <1>0, <1>4 DEF S2MMWord, FpgaTypeOK
  <2>2. EngineTypeOK'
    BY <1>0, <1>4, <2>1, S2MMType DEF S2MMWord
  <2>3. FpgaTypeOK'
    BY <1>0, <1>4, <2>1 DEF S2MMWord, FpgaTypeOK
  <2> QED BY <1>1, <1>2, <2>2, <2>3, PartsNext
<1>5. CASE S2MMOverrun \/ DmaError
  <2>1. PICK c \in Channels : Fault(c)
    BY <1>5 DEF S2MMOverrun, DmaError
  <2>2. UNCHANGED fpga
    BY <1>5 DEF S2MMOverrun, DmaError
  <2> QED BY <1>0, <1>1, <1>2, <2>1, <2>2, FaultType, SameType, PartsNext
<1>6. CASE FpgaAnswer
  <2>1. EngineTypeOK'
    BY <1>0, <1>6, EngineSame DEF FpgaAnswer
  <2>2. PICK n \in 1 .. RX_WORDS + 1 :
          packet' = [i \in 1 .. n |-> 1000 * calls + i] /\ fpgaOut' = packet'
    BY <1>6 DEF FpgaAnswer
  <2>3. calls \in Nat /\ n \in Nat
    BY <1>0, DmaAssumption, RelayAssumption DEF CpuTypeOK
  <2>4. packet' \in Seq(Nat)
    BY <2>2, <2>3
  <2>5. FpgaTypeOK'
    BY <1>0, <1>6, <2>2, <2>4 DEF FpgaAnswer, FpgaTypeOK
  <2> QED BY <1>1, <1>2, <2>1, <2>5, PartsNext
<1> QED BY <1>3, <1>4, <1>5, <1>6

LEMMA CallsType == TypeOK /\ Calls => TypeOK'
<1> SUFFICES ASSUME TypeOK, Calls PROVE TypeOK'
  OBVIOUS
<1>0. EngineTypeOK /\ CpuTypeOK /\ FpgaTypeOK
  BY TypeParts
<1>1. EngineTypeOK' /\ FpgaTypeOK'
  BY <1>0, CallTypes, EngineSame, SameType
<1>2. CpuTypeOK'
  BY <1>0, CallTypes DEF CpuTypeOK, Steps
<1> QED BY <1>1, <1>2, PartsNext

LEMMA TypeStep == TypeOK /\ [Next]_vars => TypeOK'
<1> SUFFICES ASSUME TypeOK, [Next]_vars PROVE TypeOK'
  OBVIOUS
<1>1. CASE Calls
  BY <1>1, CallsType
<1>2. CASE Serve \/ StartReadPulse \/ Restart
  BY <1>2, SetUpType, SendType, RecvType DEF Serve, MapFails, FillOverruns
<1>3. CASE MM2SWord \/ S2MMWord \/ S2MMOverrun \/ DmaError \/ FpgaAnswer
  BY <1>3, StreamType
<1>4. CASE UNCHANGED vars
  BY <1>4 DEF vars, cpu, mem, regs, fpga, TypeOK, EngineTypeOK
<1> QED BY <1>1, <1>2, <1>3, <1>4 DEF Next

(* No channel has more left to move than its length register says, and the  *)
(* receive channel is never told, nor left, to write beyond its buffer,     *)
(* whatever the buffers' sizes, the packets' and the numbers of items that  *)
(* callers hand over, and however programs are killed (dma_init.c 94, 107,  *)
(* 121, 156).                                                               *)
THEOREM TypeCorrect == Spec => []TypeOK
BY InitType, TypeStep, PTL DEF Spec
-----------------------------------------------------------------------------
(* No buffer is written under a transfer.  A channel is busy only while the  *)
(* CPU waits for it; its IOC bit then belongs to this transfer, for it was   *)
(* cleared after the transfer before it had ended.                           *)

RaceInv ==
  /\ pc \notin SettingUp \union {"tx_wait"} => left["MM2S"] = 0
  /\ pc = "tx_wait" /\ ioc["MM2S"] => left["MM2S"] = 0
  /\ pc = "tx_length" => ~ioc["MM2S"]
  /\ pc \notin SettingUp \union {"rx_wait"} => left["S2MM"] = 0
  /\ pc = "rx_wait" /\ ioc["S2MM"] => left["S2MM"] = 0
  /\ pc = "rx_length" => ~ioc["S2MM"]
  /\ op = "dma_tramsmit" /\ pc \in {"fill", "tx_clear", "tx_length"} => halted["MM2S"]

LEMMA RegTypes ==
  TypeOK => /\ left \in [Channels -> Nat]
            /\ ioc \in [Channels -> BOOLEAN] /\ halted \in [Channels -> BOOLEAN]
BY DEF TypeOK, EngineTypeOK

LEMMA RaceCpu ==
  ASSUME TypeOK, RaceInv, Calls \/ Serve \/ StartReadPulse \/ Restart
  PROVE  RaceInv'
<1> USE ChannelsAre, RegTypes DEF RaceInv, SettingUp
<1>1. CASE Calls
  <2>1. /\ pc = "caller" /\ pc' \in {"fill", "reset", "pulse"}
        /\ left' = left /\ ioc' = ioc /\ halted' = halted
        /\ op' = "dma_tramsmit" => pc' = "reset"
    BY <1>1, CallTypes DEF regs
  <2> QED BY <2>1
<1>2. CASE Map \/ MapFails \/ FillOverruns \/ Restart
  BY <1>2 DEF Map, MapFails, FillOverruns, Dies, Restart
<1>3. CASE SetUp
  BY <1>3 DEF SetUp, InitialAXIDMA
<1>4. CASE Reset
  <2>1. pc = "reset" /\ pc' = "fill" /\ left["MM2S"] = 0 /\ left["S2MM"] = 0
    BY <1>4 DEF Reset, Goto
  <2>2. PICK cs \in {{"MM2S"}, Channels} :
          /\ halted' = [d \in Channels |-> d \in cs \/ halted[d]]
          /\ left' = [d \in Channels |-> IF d \in cs THEN 0 ELSE left[d]]
    BY <1>4 DEF Reset, ResetAXIDMA
  <2>3. halted'["MM2S"]
    BY <2>2, Zenon
  <2>4. left'["MM2S"] = 0 /\ left'["S2MM"] = 0
    BY <2>1, <2>2
  <2> QED BY <2>1, <2>3, <2>4
<1>5. CASE Fill
  BY <1>5 DEF Fill, Goto, regs
<1>6. CASE TxClear
  BY <1>6 DEF TxClear, Goto, ClearAXIDMAInterrupt
<1>7. CASE TxLength
  BY <1>7 DEF TxLength, Goto, SetTransferingBufferSize
<1>8. CASE IsMM2SIOC
  BY <1>8 DEF IsMM2SIOC, Goto, regs
<1>9. CASE StartReadPulse
  BY <1>9 DEF StartReadPulse, regs
<1>10. CASE RxMemset
  BY <1>10 DEF RxMemset, Goto, regs
<1>11. CASE RxClear
  BY <1>11 DEF RxClear, Goto, ClearAXIDMAInterrupt
<1>12. CASE RxLength
  BY <1>12 DEF RxLength, Goto, SetTransferingBufferSize
<1>13. CASE IsS2MMIOC
  BY <1>13 DEF IsS2MMIOC, Goto, regs
<1>14. CASE RxCopy
  BY <1>14 DEF RxCopy, Goto, regs
<1> QED
  BY <1>1, <1>2, <1>3, <1>4, <1>5, <1>6, <1>7, <1>8, <1>9, <1>10, <1>11, <1>12, <1>13, <1>14
  DEF Serve

LEMMA RaceStream ==
  ASSUME TypeOK, RaceInv, MM2SWord \/ S2MMWord \/ S2MMOverrun \/ DmaError \/ FpgaAnswer
  PROVE  RaceInv'
<1> USE ChannelsAre, RegTypes
<1>1. pc' = pc /\ op' = op
  BY DEF MM2SWord, S2MMWord, S2MMOverrun, DmaError, FpgaAnswer, cpu
<1>2. CASE MM2SWord
  <2>1. /\ left["MM2S"] > 0 /\ left' = [left EXCEPT !["MM2S"] = @ - 1]
        /\ ioc' = [ioc EXCEPT !["MM2S"] = @ \/ MM2SEnds] /\ halted' = halted
    BY <1>2 DEF MM2SWord, MM2SMoves, Busy
  <2>2. ioc'["S2MM"] = ioc["S2MM"] /\ ioc'["MM2S"] = (ioc["MM2S"] \/ MM2SEnds)
    BY <2>1, Zenon
  <2>3. left'["S2MM"] = left["S2MM"] /\ left'["MM2S"] = left["MM2S"] - 1
    BY <2>1
  <2>4. pc \in SettingUp \union {"tx_wait"} /\ (pc = "tx_wait" => ~ioc["MM2S"])
    BY <2>1 DEF RaceInv
  <2>5. ioc'["MM2S"] /\ pc = "tx_wait" => left'["MM2S"] = 0
    BY <2>2, <2>3, <2>4 DEF MM2SEnds
  <2> QED BY <1>1, <2>1, <2>2, <2>3, <2>4, <2>5 DEF RaceInv, SettingUp
<1>3. CASE S2MMWord
  <2>1. PICK last \in BOOLEAN :
          /\ left["S2MM"] > 0 /\ left' = [left EXCEPT !["S2MM"] = IF last THEN 0 ELSE @ - 1]
          /\ ioc' = [ioc EXCEPT !["S2MM"] = @ \/ last] /\ halted' = halted
    BY <1>3 DEF S2MMWord, S2MMMoves, Busy
  <2>2. ioc'["MM2S"] = ioc["MM2S"] /\ ioc'["S2MM"] = (ioc["S2MM"] \/ last)
    BY <2>1, Zenon
  <2>3. left'["MM2S"] = left["MM2S"] /\ (last => left'["S2MM"] = 0)
    BY <2>1
  <2>4. pc \in SettingUp \union {"rx_wait"} /\ (pc = "rx_wait" => ~ioc["S2MM"])
    BY <2>1 DEF RaceInv
  <2>5. ioc'["S2MM"] /\ pc = "rx_wait" => left'["S2MM"] = 0
    BY <2>2, <2>3, <2>4
  <2> QED BY <1>1, <2>1, <2>2, <2>3, <2>4, <2>5 DEF RaceInv, SettingUp
<1>4. CASE S2MMOverrun \/ DmaError
  <2>1. PICK c \in Channels : Fault(c)
    BY <1>4 DEF S2MMOverrun, DmaError
  <2>2. /\ halted' = [halted EXCEPT ![c] = TRUE] /\ left' = [left EXCEPT ![c] = 0]
        /\ ioc' = ioc
    BY <2>1 DEF Fault
  <2>3. halted["MM2S"] => halted'["MM2S"]
    BY <2>2
  <2>4. \A d \in Channels : left'[d] = 0 \/ left'[d] = left[d]
    BY <2>2
  <2> QED BY <1>1, <2>2, <2>3, <2>4 DEF RaceInv
<1>5. CASE FpgaAnswer
  BY <1>1, <1>5 DEF FpgaAnswer, regs, RaceInv
<1> QED BY <1>2, <1>3, <1>4, <1>5

Inv == TypeOK /\ RaceInv

LEMMA InvInit == Init => Inv
BY InitType DEF Init, Inv, RaceInv, SettingUp

LEMMA InvStep == Inv /\ [Next]_vars => Inv'
<1> SUFFICES ASSUME Inv, [Next]_vars PROVE Inv'
  OBVIOUS
<1>1. TypeOK'
  BY TypeStep DEF Inv
<1>2. CASE Next
  BY <1>1, <1>2, RaceCpu, RaceStream DEF Inv, Next
<1>3. CASE UNCHANGED vars
  BY <1>1, <1>3 DEF Inv, RaceInv, vars, cpu, regs
<1> QED BY <1>2, <1>3

(* The program's own steps, whoever calls it. *)
LEMMA ServeKeepsOff ==
  ASSUME Inv, Serve, pc # "map"
  PROVE  /\ tx_packet' # tx_packet => ~Busy("MM2S")
         /\ rx_packet' # rx_packet => ~Busy("S2MM")
<1>1. CASE Fill
  BY <1>1 DEF Fill, Inv, RaceInv, SettingUp, Busy
<1>2. CASE RxMemset
  BY <1>2 DEF RxMemset, Inv, RaceInv, SettingUp, Busy
<1>3. CASE ~Fill /\ ~RxMemset
  BY <1>3 DEF Serve, Map, MapFails, FillOverruns, Dies, SetUp, InitialAXIDMA, Reset,
     TxClear, TxLength, IsMM2SIOC, RxClear, RxLength, IsS2MMIOC, RxCopy, mem
<1> QED BY <1>1, <1>2, <1>3

LEMMA CpuKeepsOff ==
  ASSUME Inv, [Next]_vars, pc' # pc, pc # "map"
  PROVE  /\ tx_packet' # tx_packet => ~Busy("MM2S")
         /\ rx_packet' # rx_packet => ~Busy("S2MM")
<1>1. CASE Calls
  BY <1>1, CallTypes DEF Inv, mem
<1>2. CASE Serve
  BY <1>2, ServeKeepsOff
<1>3. CASE StartReadPulse \/ Restart
  BY <1>3 DEF StartReadPulse, Restart, mem
<1>4. Calls \/ Serve \/ StartReadPulse \/ Restart
  BY DEF Next, vars, cpu, MM2SWord, S2MMWord, S2MMOverrun, DmaError, FpgaAnswer
<1> QED BY <1>1, <1>2, <1>3, <1>4

(* After its set-up the CPU never writes into a buffer that a channel is    *)
(* reading or filling, whatever the buffers' sizes, with errors and kills   *)
(* at any moment (dma_init.c 101, 114, 154).                                *)
THEOREM NoRace == Spec => NoBufferRace
<1>1. Inv /\ [Next]_vars =>
        [pc' # pc /\ pc # "map" => /\ tx_packet' # tx_packet => ~Busy("MM2S")
                                   /\ rx_packet' # rx_packet => ~Busy("S2MM")]_vars
  BY CpuKeepsOff
<1> QED BY InvInit, InvStep, <1>1, PTL DEF Spec, NoBufferRace
-----------------------------------------------------------------------------
(* The line to the FPGA.  What it took is a prefix of what was handed over,  *)
(* and on a running channel exactly what the engine has yet to move is       *)
(* missing; the packet buffer holds the call's words until they are moved.   *)

Prefixed(s, t) == Len(s) <= Len(t) /\ \A i \in 1 .. Len(s) : s[i] = t[i]

LineInv ==
  /\ Prefixed(fpgaIn, InFlight)
  /\ halted["MM2S"] => left["MM2S"] = 0
  /\ ~halted["MM2S"] => Len(fpgaIn) + left["MM2S"] = Len(InFlight)

LoadInv ==
  /\ pc = "tx_wait" => length["MM2S"] = Len(words)
  /\ pc \in {"tx_clear", "tx_length", "tx_wait"} =>
       \A i \in 1 .. Len(words) :
         Held(words)[i] = IF i <= TX_WORDS THEN tx_packet[i] ELSE Behind

SentInv ==
  /\ pc \in {"map", "init"} => sent = <<>>
  /\ pc \notin SettingUp => LineInv
  /\ LoadInv

LEMMA PrefixFact ==
  ASSUME NEW s \in Seq(Nat), NEW t \in Seq(Nat), Prefixed(s, t)
  PROVE  IsPrefix(s, t) /\ (Len(s) = Len(t) => s = t)
<1>1. Len(s) \in Nat /\ Len(t) \in Nat /\ Len(s) <= Len(t)
  BY DEF Prefixed
<1>2. SubSeq(s, 1, Len(s)) = [i \in 1 .. Len(s) |-> s[i]]
  BY <1>1
<1>3. SubSeq(t, 1, Len(s)) = [i \in 1 .. Len(s) |-> t[i]]
  BY <1>1
<1>4. [i \in 1 .. Len(s) |-> s[i]] = [i \in 1 .. Len(s) |-> t[i]]
  BY DEF Prefixed
<1>5. Len(s) = Len(t) => s = t
  BY SeqEqual DEF Prefixed
<1> QED BY <1>1, <1>2, <1>3, <1>4, <1>5 DEF IsPrefix

LEMMA SeqTypes ==
  TypeOK => /\ words \in Seq(Nat) /\ sent \in Seq(Nat) /\ fpgaIn \in Seq(Nat)
            /\ Held(words) \in Seq(Nat) /\ Len(Held(words)) = Len(words)
            /\ sent \o Held(words) \in Seq(Nat)
            /\ Len(sent \o Held(words)) = Len(sent) + Len(words)
            /\ InFlight \in Seq(Nat)
            /\ Len(words) \in Nat /\ Len(sent) \in Nat /\ Len(fpgaIn) \in Nat
<1> SUFFICES ASSUME TypeOK
             PROVE  /\ words \in Seq(Nat) /\ sent \in Seq(Nat) /\ fpgaIn \in Seq(Nat)
                    /\ Held(words) \in Seq(Nat) /\ Len(Held(words)) = Len(words)
                    /\ sent \o Held(words) \in Seq(Nat)
                    /\ Len(sent \o Held(words)) = Len(sent) + Len(words)
                    /\ InFlight \in Seq(Nat)
                    /\ Len(words) \in Nat /\ Len(sent) \in Nat /\ Len(fpgaIn) \in Nat
  OBVIOUS
<1>1. words \in Seq(Nat) /\ sent \in Seq(Nat) /\ fpgaIn \in Seq(Nat)
  BY DEF TypeOK
<1>2. Held(words) \in Seq(Nat) /\ Len(Held(words)) = Len(words)
  BY <1>1, HeldIs
<1>3. /\ sent \o Held(words) \in Seq(Nat)
      /\ Len(sent \o Held(words)) = Len(sent) + Len(Held(words))
  BY <1>1, <1>2, ConcatProperties
<1>4. InFlight \in Seq(Nat)
  BY <1>1, <1>3, Zenon DEF InFlight
<1>5. Len(words) \in Nat /\ Len(sent) \in Nat /\ Len(fpgaIn) \in Nat
  BY <1>1
<1> HIDE DEF InFlight, Held
<1> QED BY <1>1, <1>2, <1>3, <1>4, <1>5

LEMMA PrefixGrows ==
  ASSUME NEW s \in Seq(Nat), NEW t \in Seq(Nat), NEW u \in Seq(Nat), Prefixed(s, t)
  PROVE  Prefixed(s, t \o u)
<1>1. /\ Len(s) \in Nat /\ Len(t) \in Nat /\ Len(u) \in Nat
      /\ Len(t \o u) = Len(t) + Len(u)
      /\ \A i \in 1 .. Len(t) : (t \o u)[i] = t[i]
  BY ConcatProperties
<1>2. Len(s) <= Len(t) /\ \A i \in 1 .. Len(s) : s[i] = t[i]
  BY DEF Prefixed
<1>3. ASSUME NEW i \in 1 .. Len(s) PROVE s[i] = (t \o u)[i]
  <2>1. i \in 1 .. Len(t)
    BY <1>1, <1>2
  <2> QED BY <1>1, <1>2, <2>1
<1>4. Len(s) <= Len(t \o u)
  BY <1>1, <1>2
<1> QED BY <1>3, <1>4 DEF Prefixed

(* A step that leaves the line as it is, or halts it. *)
LEMMA LineSame ==
  ASSUME TypeOK, LineInv, fpgaIn' = fpgaIn, InFlight' = InFlight,
         \/ halted'["MM2S"] = halted["MM2S"] /\ left'["MM2S"] = left["MM2S"]
         \/ halted'["MM2S"] /\ left'["MM2S"] = 0
  PROVE  LineInv'
<1>1. Prefixed(fpgaIn, InFlight)'
  BY DEF LineInv, Prefixed
<1> QED BY <1>1 DEF LineInv

LEMMA SentSetUp ==
  ASSUME Inv, SentInv, Map \/ MapFails \/ FillOverruns \/ SetUp \/ Restart
  PROVE  SentInv'
<1> USE ChannelsAre
<1>1. CASE Map \/ MapFails \/ FillOverruns \/ Restart
  BY <1>1 DEF Map, MapFails, FillOverruns, Dies, Restart, SentInv, LoadInv, SettingUp
<1>2. CASE SetUp
  <2>1. /\ pc = "init" /\ pc' = "caller" /\ fpgaIn' = <<>> /\ sent' = sent /\ sent = <<>>
        /\ left'["MM2S"] = 0 /\ ~halted'["MM2S"]
    BY <1>2 DEF SetUp, InitialAXIDMA, SentInv
  <2>2. InFlight' = <<>>
    BY <2>1 DEF InFlight
  <2>3. Len(<<>>) = 0
    OBVIOUS
  <2>4. LineInv'
    BY <2>1, <2>2, <2>3 DEF LineInv, Prefixed
  <2> QED BY <2>1, <2>4 DEF SentInv, LoadInv
<1> QED BY <1>1, <1>2

LEMMA SentSend ==
  ASSUME Inv, SentInv, Calls \/ Reset \/ Fill \/ TxClear \/ TxLength \/ IsMM2SIOC
  PROVE  SentInv'
<1> USE ChannelsAre
<1>0. TypeOK /\ RaceInv
  BY DEF Inv
<1>1. pc \notin SettingUp /\ LineInv /\ LoadInv
  BY <1>0, CallTypes DEF SentInv, SettingUp, Reset, Fill, TxClear, TxLength, IsMM2SIOC
<1>2. CASE Calls
  <2>1. /\ pc = "caller" /\ pc' \in {"fill", "reset", "pulse"}
        /\ UNCHANGED <<sent, fpgaIn, halted, left>>
    BY <1>0, <1>2, CallTypes DEF regs, fpga
  <2>2. InFlight' = InFlight
    BY <2>1 DEF InFlight
  <2> QED BY <1>0, <1>1, <2>1, <2>2, LineSame DEF SentInv, LoadInv
<1>3. CASE Reset
  <2>1. /\ pc = "reset" /\ pc' = "fill" /\ UNCHANGED <<sent, fpgaIn>>
    BY <1>3 DEF Reset, Goto, fpga
  <2>2. PICK cs \in {{"MM2S"}, Channels} :
          /\ halted' = [d \in Channels |-> d \in cs \/ halted[d]]
          /\ left' = [d \in Channels |-> IF d \in cs THEN 0 ELSE left[d]]
    BY <1>3 DEF Reset, ResetAXIDMA
  <2>3. halted'["MM2S"]
    BY <2>2, Zenon
  <2>4. left'["MM2S"] = 0
    BY <2>2
  <2>5. InFlight' = InFlight
    BY <2>1 DEF InFlight
  <2> QED BY <1>0, <1>1, <2>1, <2>3, <2>4, <2>5, LineSame DEF SentInv, LoadInv
<1>4. CASE Fill
  <2>1. /\ pc = "fill" /\ pc' = "tx_clear" /\ UNCHANGED <<sent, words, fpgaIn, halted, left>>
    BY <1>4 DEF Fill, Goto, fpga, regs
  <2>2. InFlight' = InFlight
    BY <2>1 DEF InFlight
  <2>3. \A i \in 1 .. Len(words) :
          Held(words)[i] = IF i <= TX_WORDS THEN tx_packet'[i] ELSE Behind
    <3> TAKE i \in 1 .. Len(words)
    <3>1. Held(words)[i] = IF i <= TX_WORDS THEN words[i] ELSE Behind
      BY <1>0, SeqTypes, HeldIs
    <3>2. CASE i <= TX_WORDS
      <4>1. i \in 1 .. TX_WORDS
        BY <1>0, <3>2, SeqTypes, DmaAssumption
      <4>2. tx_packet'[i] = words[i]
        BY <1>4, <4>1 DEF Fill
      <4> QED BY <3>1, <3>2, <4>2
    <3>3. CASE ~(i <= TX_WORDS)
      BY <3>1, <3>3
    <3> QED BY <3>2, <3>3
  <2>4. LoadInv'
    BY <2>1, <2>3 DEF LoadInv
  <2> QED BY <1>0, <1>1, <2>1, <2>2, <2>4, LineSame DEF SentInv
<1>5. CASE TxClear
  <2>1. /\ pc = "tx_clear" /\ pc' = "tx_length"
        /\ UNCHANGED <<sent, words, fpgaIn, halted, left, tx_packet>>
    BY <1>5 DEF TxClear, Goto, fpga, mem, ClearAXIDMAInterrupt
  <2>2. InFlight' = InFlight
    BY <2>1 DEF InFlight
  <2>3. LoadInv'
    BY <1>1, <2>1 DEF LoadInv
  <2> QED BY <1>0, <1>1, <2>1, <2>2, <2>3, LineSame DEF SentInv
<1>6. CASE TxLength
  <2>1. /\ pc = "tx_length" /\ UNCHANGED <<words, fpgaIn, tx_packet>>
        /\ halted' = halted /\ length' = [length EXCEPT !["MM2S"] = Len(words)]
        /\ left' = [left EXCEPT !["MM2S"] = IF halted["MM2S"] THEN 0 ELSE Len(words)]
    BY <1>6 DEF TxLength, Goto, fpga, mem, SetTransferingBufferSize
  <2>2. left["MM2S"] = 0 /\ InFlight = sent
    BY <1>0, <2>1 DEF RaceInv, SettingUp, InFlight
  <2>3. InFlight' = sent \o Held(words) /\ pc' \in {"caller", "tx_wait"}
    BY <1>6 DEF TxLength, Goto, InFlight
  <2>4. pc' = "caller" => halted["MM2S"]
    BY <1>0, <1>6 DEF TxLength, Goto, RaceInv
  <2>5. left'["MM2S"] = (IF halted["MM2S"] THEN 0 ELSE Len(words))
    BY <1>0, <2>1, RegTypes
  <2>6. Prefixed(fpgaIn, sent \o Held(words))
    BY <1>0, <1>1, <2>2, SeqTypes, PrefixGrows DEF LineInv
  <2>7. Prefixed(fpgaIn, InFlight)'
    BY <2>1, <2>3, <2>6 DEF Prefixed
  <2>8. LineInv'
    <3>1. CASE halted["MM2S"]
      BY <2>1, <2>5, <2>7, <3>1 DEF LineInv
    <3>2. CASE ~halted["MM2S"]
      <4>1. Len(fpgaIn) + 0 = Len(sent) /\ left'["MM2S"] = Len(words)
        BY <1>1, <2>2, <2>5, <3>2 DEF LineInv
      <4>2. Len(fpgaIn) + left'["MM2S"] = Len(sent \o Held(words))
        <5>1. /\ Len(sent \o Held(words)) = Len(sent) + Len(words)
              /\ Len(fpgaIn) \in Nat /\ Len(sent) \in Nat
          BY <1>0, SeqTypes
        <5>2. Len(fpgaIn) = Len(sent)
          BY <4>1, <5>1
        <5> QED BY <4>1, <5>1, <5>2
      <4>3. ~halted'["MM2S"] /\ Len(fpgaIn') + left'["MM2S"] = Len(InFlight')
        BY <2>1, <2>3, <3>2, <4>2
      <4> QED BY <2>7, <4>3 DEF LineInv
    <3> QED BY <3>1, <3>2
  <2>9. length'["MM2S"] = Len(words)
    BY <1>0, <2>1 DEF TypeOK, EngineTypeOK
  <2>10. LoadInv'
    BY <1>1, <2>1, <2>3, <2>9 DEF LoadInv
  <2> QED BY <2>3, <2>8, <2>10 DEF SentInv
<1>7. CASE IsMM2SIOC
  <2>1. /\ pc = "tx_wait" /\ pc' = "caller" /\ sent' = sent \o Held(words)
        /\ UNCHANGED <<fpgaIn, halted, left>>
    BY <1>7 DEF IsMM2SIOC, Goto, fpga, regs
  <2>2. InFlight' = InFlight
    BY <2>1 DEF InFlight
  <2> QED BY <1>0, <1>1, <2>1, <2>2, LineSame DEF SentInv, LoadInv
<1> QED BY <1>2, <1>3, <1>4, <1>5, <1>6, <1>7

LEMMA SentRecv ==
  ASSUME Inv, SentInv, StartReadPulse \/ RxMemset \/ RxClear \/ RxLength \/ IsS2MMIOC \/ RxCopy
  PROVE  SentInv'
<1> USE ChannelsAre
<1>0. TypeOK
  BY DEF Inv
<1>1. /\ pc \in {"pulse", "rx_memset", "rx_clear", "rx_length", "rx_wait", "rx_copy"}
      /\ pc' \in {"rx_memset", "rx_clear", "rx_length", "rx_wait", "rx_copy", "caller"}
      /\ sent' = sent /\ fpgaIn' = fpgaIn /\ halted' = halted
  BY DEF StartReadPulse, RxMemset, RxClear, RxLength, IsS2MMIOC, RxCopy, Goto,
     fpga, regs, SetTransferingBufferSize, ClearAXIDMAInterrupt
<1>2. left'["MM2S"] = left["MM2S"]
  BY <1>0, RegTypes DEF StartReadPulse, RxMemset, RxClear, RxLength, IsS2MMIOC, RxCopy,
     regs, SetTransferingBufferSize, ClearAXIDMAInterrupt
<1>3. InFlight' = InFlight
  BY <1>1 DEF InFlight
<1>4. LineInv
  BY <1>1 DEF SentInv, SettingUp
<1>5. LineInv'
  BY <1>0, <1>1, <1>2, <1>3, <1>4, LineSame
<1> QED BY <1>1, <1>5 DEF SentInv, LoadInv

LEMMA SentWord ==
  ASSUME Inv, SentInv, MM2SWord
  PROVE  SentInv'
<1> USE ChannelsAre
<1>0. TypeOK /\ RaceInv
  BY DEF Inv
<1>1. /\ left["MM2S"] > 0 /\ left' = [left EXCEPT !["MM2S"] = @ - 1]
      /\ UNCHANGED <<pc, words, sent, halted, length, tx_packet>>
      /\ fpgaIn' = Append(fpgaIn, MM2SWordOut)
  BY DEF MM2SWord, MM2SMoves, Busy, cpu, mem
<1>2. pc \in SettingUp \union {"tx_wait"}
  BY <1>0, <1>1, RegTypes DEF RaceInv
<1>3. CASE pc \in SettingUp
  BY <1>1, <1>3 DEF SentInv, LoadInv, SettingUp
<1>4. CASE pc = "tx_wait"
  <2> DEFINE line == sent \o Held(words)
  <2>1. LineInv /\ LoadInv /\ InFlight = line /\ InFlight' = line
    BY <1>1, <1>4 DEF SentInv, SettingUp, InFlight
  <2>2. left'["MM2S"] = left["MM2S"] - 1 /\ left["MM2S"] \in Nat
    BY <1>0, <1>1, RegTypes
  <2>3. ~halted["MM2S"]
    BY <1>1, <2>1 DEF LineInv
  <2>4. /\ Len(fpgaIn) \in Nat /\ Len(sent) \in Nat /\ Len(words) \in Nat
        /\ Len(line) = Len(sent) + Len(words) /\ line \in Seq(Nat)
    BY <1>0, SeqTypes
  <2>5. Len(fpgaIn) + left["MM2S"] = Len(line)
    BY <2>1, <2>3 DEF LineInv
  <2>6. left["MM2S"] <= Len(words)
    BY <1>0, <1>4, <2>1 DEF LoadInv, TypeOK, EngineTypeOK
  <2> DEFINE at == Len(words) - left["MM2S"] + 1
  <2>7. at \in 1 .. Len(words) /\ Len(fpgaIn) + 1 = Len(sent) + at
    BY <1>1, <2>2, <2>4, <2>5, <2>6
  <2>8. MM2SWordOut = Held(words)[at]
    <3>1. At("MM2S") = at
      BY <1>4, <2>1 DEF LoadInv, At
    <3> HIDE DEF at
    <3> QED BY <1>4, <2>1, <2>7, <3>1 DEF LoadInv, MM2SWordOut
  <2>9. Held(words)[at] = line[Len(fpgaIn) + 1]
    <3>1. \A i \in Len(sent) + 1 .. Len(sent) + Len(words) : line[i] = Held(words)[i - Len(sent)]
      BY <1>0, SeqTypes, ConcatProperties
    <3>2. Len(fpgaIn) + 1 \in Len(sent) + 1 .. Len(sent) + Len(words)
      BY <2>4, <2>7
    <3>3. Len(fpgaIn) + 1 - Len(sent) = at
      <4>1. at \in Int
        BY <2>2, <2>4
      <4> HIDE DEF at, line
      <4> QED BY <2>4, <2>7, <4>1
    <3> HIDE DEF at, line
    <3> QED BY <3>1, <3>2, <3>3
  <2> HIDE DEF at, line
  <2>10. /\ Len(fpgaIn') = Len(fpgaIn) + 1
         /\ \A i \in 1 .. Len(fpgaIn) : fpgaIn'[i] = fpgaIn[i]
         /\ fpgaIn'[Len(fpgaIn) + 1] = line[Len(fpgaIn) + 1]
    BY <1>0, <1>1, <2>8, <2>9, SeqTypes
  <2>11. Prefixed(fpgaIn, InFlight)'
    <3>1. Len(fpgaIn) + 1 <= Len(line)
      BY <1>1, <2>2, <2>4, <2>5
    <3>2. \A i \in 1 .. Len(fpgaIn) : fpgaIn[i] = line[i]
      BY <2>1 DEF LineInv, Prefixed
    <3>3. ASSUME NEW i \in 1 .. Len(fpgaIn) + 1 PROVE fpgaIn'[i] = line[i]
      <4>1. i \in 1 .. Len(fpgaIn) \/ i = Len(fpgaIn) + 1
        BY <2>4
      <4> QED BY <2>10, <3>2, <4>1
    <3> QED BY <2>1, <2>10, <3>1, <3>3 DEF Prefixed
  <2>12. LineInv'
    <3>1. Len(fpgaIn) + 1 + (left["MM2S"] - 1) = Len(line)
      BY <2>2, <2>4, <2>5
    <3>2. ~halted'["MM2S"] /\ Len(fpgaIn') + left'["MM2S"] = Len(InFlight')
      BY <1>1, <2>1, <2>2, <2>3, <2>10, <3>1
    <3> QED BY <2>11, <3>2 DEF LineInv
  <2> QED BY <1>1, <1>4, <2>1, <2>12 DEF SentInv, LoadInv
<1> QED BY <1>2, <1>3, <1>4

LEMMA SentStream ==
  ASSUME Inv, SentInv, S2MMWord \/ S2MMOverrun \/ DmaError \/ FpgaAnswer
  PROVE  SentInv'
<1> USE ChannelsAre
<1>0. TypeOK
  BY DEF Inv
<1>1. UNCHANGED <<pc, words, sent, fpgaIn, tx_packet>>
  BY DEF S2MMWord, S2MMMoves, S2MMOverrun, DmaError, FpgaAnswer, Fault, cpu, mem, fpga
<1>2. InFlight' = InFlight
  BY <1>1 DEF InFlight
<1>3. /\ length'["MM2S"] = length["MM2S"]
      /\ \/ halted'["MM2S"] = halted["MM2S"] /\ left'["MM2S"] = left["MM2S"]
         \/ halted'["MM2S"] /\ left'["MM2S"] = 0
  <2>0. length \in [Channels -> Nat]
    BY <1>0 DEF TypeOK, EngineTypeOK
  <2>1. CASE S2MMWord
    BY <1>0, <2>0, <2>1, RegTypes DEF S2MMWord, S2MMMoves
  <2>2. CASE S2MMOverrun \/ DmaError
    <3>1. PICK c \in Channels : Fault(c)
      BY <2>2 DEF S2MMOverrun, DmaError
    <3>2. CASE c = "MM2S"
      BY <1>0, <2>0, <3>1, <3>2, RegTypes DEF Fault
    <3>3. CASE c # "MM2S"
      BY <1>0, <2>0, <3>1, <3>3, RegTypes DEF Fault
    <3> QED BY <3>2, <3>3
  <2>3. CASE FpgaAnswer
    BY <2>3 DEF FpgaAnswer, regs
  <2> QED BY <2>1, <2>2, <2>3
<1>4. LoadInv'
  BY <1>1, <1>3 DEF SentInv, LoadInv
<1>5. LineInv => LineInv'
  BY <1>0, <1>1, <1>2, <1>3, LineSame
<1> QED BY <1>1, <1>4, <1>5 DEF SentInv

LEMMA SentInit == Init => SentInv
BY DEF Init, SentInv, LoadInv, SettingUp

LEMMA SentStep == Inv /\ SentInv /\ [Next]_vars => SentInv'
<1> SUFFICES ASSUME Inv, SentInv, [Next]_vars PROVE SentInv'
  OBVIOUS
<1>1. CASE Calls \/ Serve \/ StartReadPulse \/ Restart
  BY <1>1, SentSetUp, SentSend, SentRecv DEF Serve
<1>2. CASE MM2SWord \/ S2MMWord \/ S2MMOverrun \/ DmaError \/ FpgaAnswer
  BY <1>2, SentWord, SentStream
<1>3. CASE UNCHANGED vars
  <2>1. UNCHANGED <<pc, words, sent, fpgaIn, tx_packet, length, left, halted>>
    BY <1>3 DEF vars, cpu, mem, regs, fpga
  <2>2. InFlight' = InFlight
    BY <2>1 DEF InFlight
  <2>3. LineInv => LineInv'
    BY <2>1, <2>2, LineSame DEF Inv
  <2> QED BY <2>1, <2>3 DEF SentInv, LoadInv
<1> QED BY <1>1, <1>2, <1>3 DEF Next

LEMMA SentIs == Inv /\ SentInv => FpgaGetsWhatWasSent
<1> SUFFICES ASSUME Inv, SentInv, pc \notin SettingUp
             PROVE  /\ IsPrefix(fpgaIn, InFlight)
                    /\ pc = "caller" /\ ~halted["MM2S"] => fpgaIn = sent
  BY DEF FpgaGetsWhatWasSent
<1>1. LineInv /\ fpgaIn \in Seq(Nat) /\ sent \in Seq(Nat) /\ InFlight \in Seq(Nat)
  BY SeqTypes DEF SentInv, Inv
<1>2. IsPrefix(fpgaIn, InFlight) /\ (Len(fpgaIn) = Len(InFlight) => fpgaIn = InFlight)
  BY <1>1, PrefixFact DEF LineInv
<1>3. ASSUME pc = "caller", ~halted["MM2S"] PROVE fpgaIn = sent
  <2>1. left["MM2S"] = 0 /\ InFlight = sent
    BY <1>3 DEF Inv, RaceInv, SettingUp, InFlight
  <2>2. Len(fpgaIn) = Len(InFlight)
    BY <1>1, <1>3, <2>1 DEF LineInv
  <2> QED BY <1>2, <2>1, <2>2
<1> QED BY <1>2, <1>3

(* The FPGA takes the words of the send calls in order, none twice and none *)
(* of a killed program, and as long as the channel runs all of them by the  *)
(* time the call returns: for buffers of every size and any number of calls *)
(* and restarts (dma_init.c 91-127).                                        *)
THEOREM SendsWhatWasSent == Spec => []FpgaGetsWhatWasSent
<1>1. Init => Inv /\ SentInv
  BY InvInit, SentInit
<1>2. (Inv /\ SentInv) /\ [Next]_vars => (Inv /\ SentInv)'
  BY InvStep, SentStep
<1> QED BY <1>1, <1>2, SentIs, PTL DEF Spec
-----------------------------------------------------------------------------
(* The line from the FPGA.  Unless a killed program left something behind,   *)
(* the FPGA has a pulse or a packet for nobody but the receive in progress,  *)
(* and at every word its packet is split between buffer and stream.          *)

SendSteps == {"reset", "fill", "tx_clear", "tx_length", "tx_wait"}
RecvSteps == {"rx_memset", "rx_clear", "rx_length", "rx_wait", "rx_copy"}

Idle    == ~pulsed /\ fpgaOut = <<>>
Offered ==
  \/ pulsed /\ fpgaOut = <<>>
  \/ ~pulsed /\ fpgaOut = packet /\ packet # <<>>

Got(n) == \A i \in 1 .. n : rx_packet[i] = packet[i]
Taken  == length["S2MM"] - left["S2MM"]

Waiting == pulsed /\ fpgaOut = <<>> /\ left["S2MM"] = RX_WORDS /\ length["S2MM"] = RX_WORDS
Moving  ==
  /\ ~pulsed /\ fpgaOut # <<>> /\ left["S2MM"] > 0
  /\ Len(packet) = Taken + Len(fpgaOut)
  /\ Got(Taken)
  /\ \A j \in 1 .. Len(fpgaOut) : fpgaOut[j] = packet[Taken + j]
Received == Idle /\ length["S2MM"] = Len(packet) /\ Got(Len(packet))
Halted   == halted["S2MM"] /\ left["S2MM"] = 0

OwnPacket ==
  /\ pc \notin RecvSteps => Idle
  /\ pc \in {"rx_memset", "rx_clear", "rx_length"} => Offered
  /\ pc = "rx_wait" /\ ~ioc["S2MM"] => Halted \/ Waiting \/ Moving
  /\ pc = "rx_wait" /\ ioc["S2MM"] => Received
  /\ pc = "rx_copy" => Received
  /\ pc = "caller" /\ op = "dma_recv_32" => recvd = packet

RecvInv ==
  /\ pc \in {"map", "init"} => op = "none"
  /\ pc \in SendSteps => op # "dma_recv_32"
  /\ ~orphan => OwnPacket

LEMMA RecvTypes ==
  TypeOK => /\ left["S2MM"] \in Nat /\ length["S2MM"] \in Nat
            /\ left["S2MM"] <= length["S2MM"] /\ length["S2MM"] <= RX_WORDS
            /\ left \in [Channels -> Nat] /\ length \in [Channels -> Nat]
            /\ fpgaOut \in Seq(Nat) /\ packet \in Seq(Nat)
            /\ rx_packet \in [1 .. RX_WORDS -> Nat]
            /\ RX_WORDS \in Nat /\ RX_WORDS > 0
BY DmaAssumption DEF TypeOK, EngineTypeOK, Channels

(* The rest of a packet after its first word. *)
LEMMA TailFact ==
  ASSUME NEW s \in Seq(Nat), s # <<>>
  PROVE  /\ Tail(s) \in Seq(Nat) /\ Len(Tail(s)) = Len(s) - 1
         /\ Len(s) = 1 => Tail(s) = <<>>
         /\ Len(s) # 1 => Tail(s) # <<>>
         /\ \A j \in 1 .. Len(s) - 1 : Tail(s)[j] = s[j + 1]
<1>1. /\ Tail(s) \in Seq(Nat) /\ Len(Tail(s)) = Len(s) - 1
      /\ \A j \in 1 .. Len(Tail(s)) : Tail(s)[j] = s[j + 1]
  BY HeadTailProperties
<1>2. Len(s) \in Nat /\ Len(s) > 0
  OBVIOUS
<1>3. Len(Tail(s)) = 0 <=> Tail(s) = <<>>
  BY <1>1, EmptySeq
<1> QED BY <1>1, <1>2, <1>3

(* A call begins with an idle FPGA and ends the claim on the last packet. *)
LEMMA CallOps ==
  Calls => /\ pc = "caller" /\ pc' \in {"fill", "reset", "pulse"}
           /\ pc' # "pulse" => op' # "dma_recv_32"
           /\ UNCHANGED <<orphan, fpga>>
BY DEF Calls, CallTransmit32, CallDecOr, CallTramsmit, CallRecv32, Call

LEMMA RecvSetUp ==
  ASSUME Inv, RecvInv, Map \/ MapFails \/ FillOverruns \/ SetUp \/ Restart
  PROVE  RecvInv'
<1>1. CASE Map \/ MapFails \/ FillOverruns \/ SetUp
  BY <1>1 DEF Map, MapFails, FillOverruns, Dies, SetUp, RecvInv, OwnPacket, RecvSteps,
             SendSteps, Idle, fpga
<1>2. CASE Restart
  <2>1. /\ pc' = "map" /\ op' = "none" /\ UNCHANGED <<pulsed, fpgaOut>>
        /\ ~orphan' => ~pulsed /\ fpgaOut = <<>>
    BY <1>2 DEF Restart, fpga
  <2> QED BY <2>1 DEF RecvInv, OwnPacket, RecvSteps, SendSteps, Idle
<1> QED BY <1>1, <1>2

LEMMA RecvSend ==
  ASSUME Inv, RecvInv, Calls \/ Reset \/ Fill \/ TxClear \/ TxLength \/ IsMM2SIOC
  PROVE  RecvInv'
<1>1. CASE Calls
  BY <1>1, CallOps DEF RecvInv, OwnPacket, RecvSteps, SendSteps, Idle, fpga
<1>2. CASE Reset \/ Fill \/ TxClear \/ TxLength \/ IsMM2SIOC
  BY <1>2 DEF Reset, Fill, TxClear, TxLength, IsMM2SIOC, Goto, RecvInv, OwnPacket,
     RecvSteps, SendSteps, Idle, fpga
<1> QED BY <1>1, <1>2

(* The receive's own steps, whoever left what in the FPGA before. *)
LEMMA OwnRecv ==
  ASSUME Inv, OwnPacket, StartReadPulse \/ RxMemset \/ RxClear \/ RxLength \/ IsS2MMIOC \/ RxCopy
  PROVE  OwnPacket'
<1> USE ChannelsAre
<1>0. TypeOK /\ RaceInv
  BY DEF Inv
<1>1. CASE StartReadPulse
  BY <1>1 DEF StartReadPulse, OwnPacket, RecvSteps, Idle, Offered
<1>2. CASE RxMemset \/ RxClear
  BY <1>2 DEF RxMemset, RxClear, Goto, OwnPacket, RecvSteps, Offered, fpga
<1>3. CASE RxLength
  <2>1. /\ pc = "rx_length" /\ pc' = "rx_wait" /\ UNCHANGED <<fpga, halted, ioc>>
        /\ left' = [left EXCEPT !["S2MM"] = IF halted["S2MM"] THEN 0 ELSE RX_WORDS]
        /\ length' = [length EXCEPT !["S2MM"] = RX_WORDS]
    BY <1>3 DEF RxLength, Goto, SetTransferingBufferSize
  <2>2. ~ioc'["S2MM"]
    BY <1>0, <2>1 DEF RaceInv
  <2>3. length'["S2MM"] = RX_WORDS
        /\ left'["S2MM"] = (IF halted["S2MM"] THEN 0 ELSE RX_WORDS)
    BY <1>0, <2>1, RecvTypes
  <2>4. Offered
    BY <2>1 DEF OwnPacket
  <2>5. CASE halted["S2MM"]
    <3>1. Halted'
      BY <2>1, <2>3, <2>5 DEF Halted
    <3> QED BY <2>1, <2>2, <3>1 DEF OwnPacket, RecvSteps
  <2>6. CASE ~halted["S2MM"] /\ pulsed
    <3>1. Waiting'
      BY <2>1, <2>3, <2>4, <2>6 DEF Offered, Waiting, fpga
    <3> QED BY <2>1, <2>2, <3>1 DEF OwnPacket, RecvSteps
  <2>7. CASE ~halted["S2MM"] /\ ~pulsed
    <3>1. ~pulsed' /\ fpgaOut' = packet /\ packet' = packet /\ packet # <<>>
      BY <2>1, <2>4, <2>7 DEF Offered, fpga
    <3>2. left'["S2MM"] = RX_WORDS /\ Taken' = 0 /\ left'["S2MM"] > 0
      BY <1>0, <2>3, <2>7, RecvTypes DEF Taken
    <3>3. Len(packet) \in Nat /\ \A j \in 1 .. Len(packet) : 0 + j = j
      BY <1>0, RecvTypes
    <3>4. Got(Taken)'
      BY <3>2 DEF Got
    <3>5. Moving'
      <4> HIDE DEF Taken
      <4> QED BY <3>1, <3>2, <3>3, <3>4 DEF Moving
    <3> QED BY <2>1, <2>2, <3>5 DEF OwnPacket, RecvSteps
  <2> QED BY <2>5, <2>6, <2>7
<1>4. CASE IsS2MMIOC
  BY <1>4 DEF IsS2MMIOC, Goto, OwnPacket, RecvSteps, Received, Idle, Got, fpga, regs, mem
<1>5. CASE RxCopy
  <2>1. /\ pc = "rx_copy" /\ pc' = "caller" /\ UNCHANGED fpga
        /\ recvd' = SubSeq(rx_packet, 1, length["S2MM"])
    BY <1>5 DEF RxCopy, Goto
  <2>2. Idle /\ length["S2MM"] = Len(packet) /\ \A i \in 1 .. Len(packet) : rx_packet[i] = packet[i]
    BY <2>1 DEF OwnPacket, Received, Got
  <2>3. recvd' = [i \in 1 .. length["S2MM"] |-> rx_packet[i]]
    BY <1>0, <2>1, RecvTypes
  <2>4. packet = [i \in 1 .. Len(packet) |-> packet[i]]
    BY <1>0, RecvTypes
  <2>5. recvd' = packet
    BY <2>2, <2>3, <2>4
  <2> QED BY <2>1, <2>2, <2>5 DEF OwnPacket, RecvSteps, Idle, fpga
<1> QED BY <1>1, <1>2, <1>3, <1>4, <1>5

(* A word moves from the stream to the buffer; the last one completes. *)
LEMMA OwnWord ==
  ASSUME Inv, OwnPacket, S2MMWord
  PROVE  OwnPacket'
<1> USE ChannelsAre
<1>0. TypeOK /\ RaceInv
  BY DEF Inv
<1> DEFINE last == Len(fpgaOut) = 1
<1>1. /\ fpgaOut # <<>> /\ left["S2MM"] > 0
      /\ fpgaOut' = Tail(fpgaOut)
      /\ rx_packet' = [rx_packet EXCEPT ![At("S2MM")] = Head(fpgaOut)]
      /\ left' = [left EXCEPT !["S2MM"] = IF last THEN 0 ELSE @ - 1]
      /\ ioc' = [ioc EXCEPT !["S2MM"] = @ \/ last]
      /\ length' = IF last THEN [length EXCEPT !["S2MM"] = At("S2MM")] ELSE length
      /\ last \/ left["S2MM"] > 1
      /\ UNCHANGED <<cpu, pulsed, packet, halted>>
  BY DEF S2MMWord, S2MMMoves, Busy
<1>2. UNCHANGED <<pc, op, recvd>>
  BY <1>1 DEF cpu
<1>3. pc = "rx_wait" /\ ~ioc["S2MM"]
  BY <1>0, <1>1 DEF RaceInv, OwnPacket, Idle, RecvSteps, SettingUp
<1>4. Moving
  BY <1>0, <1>1, <1>3, RecvTypes DEF OwnPacket, Halted, Waiting
<1>5. /\ Taken \in Nat /\ At("S2MM") = Taken + 1 /\ At("S2MM") \in 1 .. RX_WORDS
      /\ Len(fpgaOut) \in Nat /\ Len(fpgaOut) > 0
  BY <1>0, <1>1, RecvTypes DEF Taken, At
<1>6. Head(fpgaOut) = packet[Taken + 1]
  BY <1>0, <1>1, <1>4, <1>5, RecvTypes DEF Moving
<1>7. \A i \in 1 .. Taken + 1 : rx_packet'[i] = packet[i]
  <2> TAKE i \in 1 .. Taken + 1
  <2>1. CASE i = Taken + 1
    BY <1>0, <1>1, <1>5, <1>6, <2>1, RecvTypes
  <2>2. CASE i # Taken + 1
    <3>1. i \in 1 .. Taken
      BY <1>5, <2>2
    <3>2. i \in 1 .. RX_WORDS /\ i # At("S2MM")
      BY <1>0, <1>5, <2>2, <3>1, RecvTypes
    <3>3. rx_packet'[i] = rx_packet[i]
      BY <1>0, <1>1, <3>2, RecvTypes
    <3> QED BY <1>4, <3>1, <3>3 DEF Moving, Got
  <2> QED BY <2>1, <2>2
<1>8. CASE last
  <2>1. ioc'["S2MM"]
    <3>1. ioc' = [ioc EXCEPT !["S2MM"] = TRUE]
      BY <1>1, <1>8
    <3> QED BY <1>0, <3>1, RegTypes
  <2>2. fpgaOut' = <<>>
    BY <1>0, <1>1, <1>8, RecvTypes, TailFact
  <2>3. length'["S2MM"] = Taken + 1 /\ Len(packet) = Taken + 1
    BY <1>0, <1>1, <1>4, <1>5, <1>8, RecvTypes DEF Moving
  <2>4. Received'
    BY <1>1, <1>4, <1>7, <2>2, <2>3 DEF Received, Idle, Got, Moving
  <2> QED BY <1>2, <1>3, <2>1, <2>4 DEF OwnPacket, RecvSteps
<1>9. CASE ~last
  <2>1. ~ioc'["S2MM"]
    <3>1. (ioc["S2MM"] \/ last) = FALSE
      BY <1>3, <1>9
    <3>2. ioc' = [ioc EXCEPT !["S2MM"] = FALSE]
      BY <1>1, <3>1, Zenon
    <3> QED BY <1>0, <3>2, RegTypes
  <2>2. Len(fpgaOut') = Len(fpgaOut) - 1 /\ fpgaOut' # <<>>
        /\ \A j \in 1 .. Len(fpgaOut) - 1 : fpgaOut'[j] = fpgaOut[j + 1]
    BY <1>0, <1>1, <1>9, RecvTypes, TailFact
  <2>3. left'["S2MM"] = left["S2MM"] - 1 /\ left'["S2MM"] > 0 /\ length' = length
    BY <1>0, <1>1, <1>9, RecvTypes
  <2>4. Taken' = Taken + 1
    BY <1>0, <2>3, RecvTypes DEF Taken
  <2>5. Got(Taken)'
    BY <1>1, <1>7, <2>4 DEF Got
  <2> HIDE DEF last
  <2>6. Len(packet) = Taken + 1 + (Len(fpgaOut) - 1)
    BY <1>4, <1>5 DEF Moving
  <2>7. ASSUME NEW j \in 1 .. Len(fpgaOut) - 1 PROVE fpgaOut'[j] = packet[Taken + 1 + j]
    <3>1. j + 1 \in 1 .. Len(fpgaOut) /\ Taken + (j + 1) = Taken + 1 + j
      BY <1>5
    <3>2. fpgaOut[j + 1] = packet[Taken + (j + 1)]
      BY <1>4, <3>1 DEF Moving
    <3> QED BY <2>2, <3>1, <3>2
  <2>8. Moving'
    <3>1. ~pulsed' /\ packet' = packet
      BY <1>1, <1>4 DEF Moving
    <3> HIDE DEF Taken
    <3> QED BY <2>2, <2>3, <2>4, <2>5, <2>6, <2>7, <3>1 DEF Moving
  <2> QED BY <1>2, <1>3, <2>1, <2>8 DEF OwnPacket, RecvSteps
<1> QED BY <1>8, <1>9

(* The other channel, an error, the FPGA's answer, and what concerns none.  *)
LEMMA OwnSent ==
  ASSUME Inv, OwnPacket, MM2SWord
  PROVE  OwnPacket'
<1> USE ChannelsAre
<1>0. TypeOK
  BY DEF Inv
<1>1. /\ UNCHANGED <<pc, op, recvd, pulsed, fpgaOut, packet, rx_packet, length, halted>>
      /\ left' = [left EXCEPT !["MM2S"] = @ - 1]
      /\ ioc' = [ioc EXCEPT !["MM2S"] = @ \/ MM2SEnds]
  BY DEF MM2SWord, MM2SMoves, mem, cpu
<1>2. left'["S2MM"] = left["S2MM"]
  BY <1>0, <1>1, RegTypes
<1>3. ioc'["S2MM"] = ioc["S2MM"]
  BY <1>0, <1>1, RegTypes, Zenon
<1> QED BY <1>1, <1>2, <1>3 DEF OwnPacket, Idle, Offered, Halted, Waiting, Moving, Received,
        Got, Taken

LEMMA OwnFault ==
  ASSUME Inv, OwnPacket, S2MMOverrun \/ DmaError
  PROVE  OwnPacket'
<1> USE ChannelsAre
<1>0. TypeOK /\ RaceInv
  BY DEF Inv
<1>1. PICK c \in Channels : Busy(c) /\ Fault(c)
  BY DEF S2MMOverrun, DmaError, Busy
<1>2. /\ UNCHANGED <<pc, op, recvd, pulsed, fpgaOut, packet, rx_packet, length, ioc>>
      /\ halted' = [halted EXCEPT ![c] = TRUE] /\ left' = [left EXCEPT ![c] = 0]
      /\ left[c] > 0
  BY <1>1 DEF S2MMOverrun, DmaError, Fault, Busy, fpga, mem, cpu
<1>3. CASE c = "S2MM"
  <2>1. Halted'
    BY <1>0, <1>2, <1>3, RegTypes DEF Halted
  <2>2. pc \in SettingUp \union {"rx_wait"} /\ (pc = "rx_wait" => ~ioc["S2MM"])
    BY <1>0, <1>2, <1>3, RegTypes DEF RaceInv
  <2> QED BY <1>2, <2>1, <2>2 DEF OwnPacket, Idle, SettingUp, RecvSteps
<1>4. CASE c # "S2MM"
  <2>1. left'["S2MM"] = left["S2MM"] /\ halted'["S2MM"] = halted["S2MM"]
    BY <1>0, <1>2, <1>4, RegTypes
  <2> QED BY <1>2, <2>1 DEF OwnPacket, Idle, Offered, Halted, Waiting, Moving, Received, Got, Taken
<1> QED BY <1>3, <1>4

LEMMA OwnAnswer ==
  ASSUME Inv, OwnPacket, pulsed, fpgaOut = <<>>, ~pulsed', fpgaOut' = packet',
         packet' \in Seq(Nat), packet' # <<>>, UNCHANGED <<cpu, mem, regs>>
  PROVE  OwnPacket'
<1>0. TypeOK
  BY DEF Inv
<1>1. UNCHANGED <<pc, op, recvd, rx_packet, halted, ioc, left, length>>
  BY DEF cpu, mem, regs
<1>2. pc \in {"rx_memset", "rx_clear", "rx_length"} \/ (pc = "rx_wait" /\ ~ioc["S2MM"])
  BY DEF OwnPacket, Idle, Received, RecvSteps
<1>3. CASE pc # "rx_wait"
  BY <1>1, <1>2, <1>3 DEF OwnPacket, Offered, RecvSteps
<1>4. CASE pc = "rx_wait" /\ Halted
  BY <1>1, <1>2, <1>4 DEF OwnPacket, Halted, RecvSteps
<1>5. CASE pc = "rx_wait" /\ ~Halted
  <2>1. Waiting
    BY <1>2, <1>5 DEF OwnPacket, Moving
  <2>2. Taken' = 0 /\ left'["S2MM"] > 0
    BY <1>0, <1>1, <2>1, RecvTypes DEF Waiting, Taken
  <2>3. Len(packet') \in Nat /\ \A j \in 1 .. Len(packet') : 0 + j = j
    OBVIOUS
  <2>4. Got(Taken)'
    BY <2>2 DEF Got
  <2>5. Moving'
    <3> HIDE DEF Taken
    <3> QED BY <2>2, <2>3, <2>4 DEF Moving
  <2> QED BY <1>1, <1>2, <1>5, <2>5 DEF OwnPacket, RecvSteps
<1> QED BY <1>3, <1>4, <1>5

LEMMA OwnSame ==
  OwnPacket /\ UNCHANGED <<cpu, mem, regs, fpga>> => OwnPacket'
BY DEF cpu, mem, regs, fpga, OwnPacket, Idle, Offered, Halted, Waiting, Moving, Received,
   Got, Taken

LEMMA RecvOwn ==
  ASSUME Inv, RecvInv,
         StartReadPulse \/ RxMemset \/ RxClear \/ RxLength \/ IsS2MMIOC \/ RxCopy
  PROVE  RecvInv'
<1>1. pc' \in RecvSteps \union {"caller"} /\ op' = op
  BY DEF StartReadPulse, RxMemset, RxClear, RxLength, IsS2MMIOC, RxCopy, Goto, RecvSteps
<1>2. CASE ~orphan
  <2>1. ~orphan' /\ OwnPacket
    <3>1. CASE StartReadPulse
      BY <1>2, <3>1, Zenon DEF StartReadPulse, RecvInv
    <3>2. CASE ~StartReadPulse
      BY <1>2, <3>2 DEF RecvInv, RxMemset, RxClear, RxLength, IsS2MMIOC, RxCopy, Goto
    <3> QED BY <3>1, <3>2
  <2> QED BY <1>1, <2>1, OwnRecv DEF RecvInv, RecvSteps, SendSteps
<1>3. CASE orphan /\ StartReadPulse
  <2>1. ~orphan' => Idle
    BY <1>3 DEF StartReadPulse, Idle
  <2>2. pc' = "rx_memset" /\ pulsed' /\ fpgaOut' = fpgaOut
    BY <1>3 DEF StartReadPulse
  <2>3. ~orphan' => OwnPacket'
    BY <2>1, <2>2 DEF OwnPacket, Idle, Offered, RecvSteps
  <2> QED BY <1>1, <2>3 DEF RecvInv, RecvSteps, SendSteps
<1>4. CASE orphan /\ ~StartReadPulse
  <2>1. orphan'
    BY <1>4 DEF RxMemset, RxClear, RxLength, IsS2MMIOC, RxCopy, Goto
  <2> QED BY <1>1, <2>1 DEF RecvInv, RecvSteps, SendSteps
<1> QED BY <1>2, <1>3, <1>4

LEMMA RecvStream ==
  ASSUME Inv, RecvInv, MM2SWord \/ S2MMWord \/ S2MMOverrun \/ DmaError \/ FpgaAnswer
  PROVE  RecvInv'
<1>1. UNCHANGED <<pc, op, orphan>>
  BY DEF MM2SWord, S2MMWord, S2MMOverrun, DmaError, FpgaAnswer, cpu
<1>2. ASSUME OwnPacket PROVE OwnPacket'
  <2>1. CASE FpgaAnswer
    <3>1. PICK n \in 1 .. RX_WORDS + 1 : packet' = [i \in 1 .. n |-> 1000 * calls + i]
      BY <2>1 DEF FpgaAnswer
    <3>2. n \in Nat /\ n > 0 /\ calls \in Nat
      BY DmaAssumption, RelayAssumption DEF Inv, TypeOK
    <3>3. packet' \in Seq(Nat) /\ Len(packet') = n
      BY <3>1, <3>2
    <3>4. packet' # <<>>
      BY <3>2, <3>3
    <3> QED BY <1>2, <2>1, <3>3, <3>4, OwnAnswer DEF FpgaAnswer
  <2> QED BY <1>2, <2>1, OwnWord, OwnSent, OwnFault
<1> QED BY <1>1, <1>2 DEF RecvInv

LEMMA RecvInit == Init => RecvInv
BY DEF Init, RecvInv, OwnPacket, Idle, SendSteps, RecvSteps

LEMMA RecvStep == Inv /\ RecvInv /\ [Next]_vars => RecvInv'
<1> SUFFICES ASSUME Inv, RecvInv, [Next]_vars PROVE RecvInv'
  OBVIOUS
<1>1. CASE Calls \/ Serve \/ StartReadPulse \/ Restart
  BY <1>1, RecvSetUp, RecvSend, RecvOwn DEF Serve
<1>2. CASE MM2SWord \/ S2MMWord \/ S2MMOverrun \/ DmaError \/ FpgaAnswer
  BY <1>2, RecvStream
<1>3. CASE UNCHANGED vars
  BY <1>3, OwnSame DEF vars, cpu, RecvInv
<1> QED BY <1>1, <1>2, <1>3 DEF Next

(* A receive returns the FPGA's answer to its own pulse, whole, unless at   *)
(* its pulse the FPGA still holds what a killed program left: for every     *)
(* buffer and packet size, packets too long included, with errors at any    *)
(* word (dma_init.c 150-165).                                               *)
THEOREM ReceivesWhole == Spec => []RecvReturnsWhole
<1>1. Init => Inv /\ RecvInv
  BY InvInit, RecvInit
<1>2. (Inv /\ RecvInv) /\ [Next]_vars => (Inv /\ RecvInv)'
  BY InvStep, RecvStep
<1>3. RecvInv => RecvReturnsWhole
  BY DEF RecvInv, OwnPacket, RecvReturnsWhole
<1> QED BY <1>1, <1>2, <1>3, PTL DEF Spec
-----------------------------------------------------------------------------
(* No wait misses its wake-up.  An idle channel that is waited for has       *)
(* completed or stopped; a receive comes to its wait with a pulse or a       *)
(* packet that nothing has taken meanwhile, for S2MM was idle.               *)

TxServed == pc = "tx_wait" => ioc["MM2S"] \/ left["MM2S"] > 0 \/ halted["MM2S"] \/ words = <<>>

RxServed ==
  /\ pc \in {"rx_memset", "rx_clear", "rx_length"} => pulsed \/ fpgaOut # <<>>
  /\ pc = "rx_wait" =>
       \/ ioc["S2MM"] \/ halted["S2MM"]
       \/ left["S2MM"] > 0 /\ (pulsed \/ fpgaOut # <<>>)

LEMMA TxServedServe ==
  ASSUME Inv, TxServed, Serve
  PROVE  TxServed'
<1> USE ChannelsAre
<1>1. CASE TxLength
  <2>1. words' = words
    BY <1>1 DEF TxLength, Goto
  <2>2. /\ left' = [left EXCEPT !["MM2S"] = IF halted["MM2S"] THEN 0 ELSE Len(words)]
        /\ halted' = halted
    BY <1>1 DEF TxLength, SetTransferingBufferSize
  <2>3. left'["MM2S"] = IF halted["MM2S"] THEN 0 ELSE Len(words)
    BY <2>2, RegTypes DEF Inv
  <2>4. words # <<>> => Len(words) > 0
    BY SeqTypes, EmptySeq DEF Inv
  <2> QED BY <2>1, <2>2, <2>3, <2>4 DEF TxServed
<1>2. CASE ~TxLength
  BY <1>2 DEF TxServed, Serve, Map, MapFails, FillOverruns, Dies, SetUp, Reset, Fill, TxClear,
             IsMM2SIOC, RxMemset, RxClear, RxLength, IsS2MMIOC, RxCopy, Goto
<1> QED BY <1>1, <1>2

LEMMA TxServedStream ==
  ASSUME Inv, TxServed, MM2SWord \/ S2MMWord \/ S2MMOverrun \/ DmaError \/ FpgaAnswer
  PROVE  TxServed'
<1> USE ChannelsAre, RegTypes DEF Inv
<1>1. UNCHANGED <<pc, words>>
  BY DEF MM2SWord, S2MMWord, S2MMOverrun, DmaError, FpgaAnswer, cpu
<1>2. CASE MM2SWord
  <2>1. /\ left' = [left EXCEPT !["MM2S"] = @ - 1] /\ left["MM2S"] > 0
        /\ ioc' = [ioc EXCEPT !["MM2S"] = @ \/ MM2SEnds]
    BY <1>2 DEF MM2SWord, MM2SMoves, Busy
  <2>2. ioc'["MM2S"] = (ioc["MM2S"] \/ MM2SEnds)
    BY <2>1, Zenon
  <2>3. MM2SEnds \/ left'["MM2S"] > 0
    BY <2>1 DEF MM2SEnds
  <2> QED BY <2>2, <2>3 DEF TxServed
<1>3. CASE S2MMWord
  <2>1. PICK last \in BOOLEAN :
          /\ left' = [left EXCEPT !["S2MM"] = IF last THEN 0 ELSE @ - 1]
          /\ ioc' = [ioc EXCEPT !["S2MM"] = @ \/ last] /\ halted' = halted
    BY <1>3 DEF S2MMWord, S2MMMoves
  <2>2. ioc'["MM2S"] = ioc["MM2S"]
    BY <2>1, Zenon
  <2>3. left'["MM2S"] = left["MM2S"]
    BY <2>1
  <2> QED BY <1>1, <2>1, <2>2, <2>3 DEF TxServed
<1>4. CASE S2MMOverrun \/ DmaError
  <2>1. PICK c \in Channels : Fault(c)
    BY <1>4 DEF S2MMOverrun, DmaError
  <2>2. /\ halted' = [halted EXCEPT ![c] = TRUE] /\ left' = [left EXCEPT ![c] = 0]
        /\ ioc' = ioc
    BY <2>1 DEF Fault
  <2>3. halted'["MM2S"] \/ (halted'["MM2S"] = halted["MM2S"] /\ left'["MM2S"] = left["MM2S"])
    BY <2>2
  <2>4. halted["MM2S"] => halted'["MM2S"]
    BY <2>2
  <2> QED BY <1>1, <2>2, <2>3, <2>4 DEF TxServed
<1>5. CASE FpgaAnswer
  BY <1>1, <1>5 DEF FpgaAnswer, regs, TxServed
<1> QED BY <1>2, <1>3, <1>4, <1>5

LEMMA RxServedCpu ==
  ASSUME Inv, RxServed, Calls \/ Serve \/ StartReadPulse \/ Restart
  PROVE  RxServed'
<1> USE ChannelsAre DEF RxServed
<1>1. CASE Calls
  BY <1>1, CallTypes DEF Inv
<1>2. CASE StartReadPulse \/ RxMemset \/ RxClear
  BY <1>2 DEF StartReadPulse, RxMemset, RxClear, Goto, fpga
<1>3. CASE RxLength
  <2>1. /\ pc = "rx_length" /\ UNCHANGED <<pulsed, fpgaOut, halted>>
        /\ left' = [left EXCEPT !["S2MM"] = IF halted["S2MM"] THEN 0 ELSE RX_WORDS]
    BY <1>3 DEF RxLength, Goto, SetTransferingBufferSize, fpga
  <2>2. halted["S2MM"] \/ left'["S2MM"] > 0
    BY <2>1, RegTypes, DmaAssumption DEF Inv
  <2>3. pc' = "rx_wait"
    BY <1>3 DEF RxLength, Goto
  <2> QED BY <2>1, <2>2, <2>3
<1>4. CASE (Serve /\ ~RxMemset /\ ~RxClear /\ ~RxLength) \/ Restart
  BY <1>4 DEF Serve, Map, MapFails, FillOverruns, Dies, SetUp, Reset, Fill, TxClear, TxLength,
             IsMM2SIOC, IsS2MMIOC, RxCopy, Restart, Goto
<1> QED BY <1>1, <1>2, <1>3, <1>4

LEMMA RxServedStream ==
  ASSUME Inv, RxServed, MM2SWord \/ S2MMWord \/ S2MMOverrun \/ DmaError \/ FpgaAnswer
  PROVE  RxServed'
<1> USE ChannelsAre, RegTypes DEF Inv
<1>1. pc' = pc
  BY DEF MM2SWord, S2MMWord, S2MMOverrun, DmaError, FpgaAnswer, cpu
<1>2. CASE MM2SWord
  <2>1. /\ left' = [left EXCEPT !["MM2S"] = @ - 1] /\ UNCHANGED <<halted, pulsed, fpgaOut>>
        /\ ioc' = [ioc EXCEPT !["MM2S"] = @ \/ MM2SEnds]
    BY <1>2 DEF MM2SWord, MM2SMoves
  <2>2. ioc'["S2MM"] = ioc["S2MM"]
    BY <2>1, Zenon
  <2>3. left'["S2MM"] = left["S2MM"]
    BY <2>1
  <2> QED BY <1>1, <2>1, <2>2, <2>3 DEF RxServed
<1>3. CASE S2MMWord
  <2> DEFINE last == Len(fpgaOut) = 1
  <2>1. /\ left' = [left EXCEPT !["S2MM"] = IF last THEN 0 ELSE @ - 1]
        /\ ioc' = [ioc EXCEPT !["S2MM"] = @ \/ last]
        /\ fpgaOut # <<>> /\ fpgaOut' = Tail(fpgaOut)
        /\ left["S2MM"] > 0 /\ (last \/ left["S2MM"] > 1)
    BY <1>3 DEF S2MMWord, S2MMMoves, Busy
  <2>2. ioc'["S2MM"] = (ioc["S2MM"] \/ last)
    BY <2>1, Zenon
  <2>3. ~last => left'["S2MM"] > 0
    BY <2>1
  <2>4. ~last => fpgaOut' # <<>>
    <3>1. fpgaOut \in Seq(Nat)
      BY TypeParts DEF FpgaTypeOK
    <3> QED BY <2>1, <3>1, TailFact
  <2>5. pc \in SettingUp \union {"rx_wait"}
    BY <2>1 DEF RaceInv
  <2> QED BY <1>1, <2>2, <2>3, <2>4, <2>5 DEF RxServed, SettingUp
<1>4. CASE S2MMOverrun \/ DmaError
  <2>1. PICK c \in Channels : Fault(c)
    BY <1>4 DEF S2MMOverrun, DmaError
  <2>2. /\ halted' = [halted EXCEPT ![c] = TRUE] /\ left' = [left EXCEPT ![c] = 0]
        /\ ioc' = ioc /\ UNCHANGED <<pulsed, fpgaOut>>
    BY <1>4, <2>1 DEF Fault, S2MMOverrun, DmaError, fpga
  <2>3. halted'["S2MM"] \/ (halted'["S2MM"] = halted["S2MM"] /\ left'["S2MM"] = left["S2MM"])
    BY <2>2
  <2>4. halted["S2MM"] => halted'["S2MM"]
    BY <2>2
  <2> QED BY <1>1, <2>2, <2>3, <2>4 DEF RxServed
<1>5. CASE FpgaAnswer
  <2>1. PICK n \in 1 .. RX_WORDS + 1 : fpgaOut' = [i \in 1 .. n |-> 1000 * calls + i]
    BY <1>5 DEF FpgaAnswer
  <2>2. Len(fpgaOut') > 0
    BY <2>1, DmaAssumption
  <2>3. fpgaOut' # <<>>
    BY <2>2
  <2> QED BY <1>1, <1>5, <2>3 DEF FpgaAnswer, regs, RxServed
<1> QED BY <1>2, <1>3, <1>4, <1>5

ServedInv == TxServed /\ RxServed

LEMMA ServedStep == Inv /\ ServedInv /\ [Next]_vars => ServedInv'
<1> SUFFICES ASSUME Inv, ServedInv, [Next]_vars PROVE ServedInv'
  OBVIOUS
<1> USE DEF ServedInv
<1>1. CASE Calls \/ Serve \/ StartReadPulse \/ Restart
  <2>1. TxServed'
    <3>1. CASE Serve
      BY <3>1, TxServedServe
    <3>2. CASE Calls
      BY <3>2, CallTypes DEF Inv, TxServed
    <3>3. CASE StartReadPulse \/ Restart
      BY <3>3 DEF StartReadPulse, Restart, TxServed
    <3> QED BY <1>1, <3>1, <3>2, <3>3
  <2> QED BY <1>1, <2>1, RxServedCpu
<1>2. CASE MM2SWord \/ S2MMWord \/ S2MMOverrun \/ DmaError \/ FpgaAnswer
  BY <1>2, TxServedStream, RxServedStream
<1>3. CASE UNCHANGED vars
  BY <1>3 DEF vars, cpu, regs, fpga, TxServed, RxServed
<1> QED BY <1>1, <1>2, <1>3 DEF Next

(* A wait for IOC has its bit set, or the transfer that sets it under way   *)
(* and asked for, or it is on a stopped channel or for no words: for every  *)
(* buffer size, with programs killed anywhere (dma_init.c 106-108, 120-122, *)
(* 153-157).                                                                *)
THEOREM NoLostWakeUp == Spec => []WaitsAreServed
<1>1. Init => Inv /\ ServedInv
  BY InvInit DEF Init, ServedInv, TxServed, RxServed
<1>2. (Inv /\ ServedInv) /\ [Next]_vars => (Inv /\ ServedInv)'
  BY InvStep, ServedStep
<1>3. ServedInv => WaitsAreServed
  BY DEF ServedInv, TxServed, RxServed, WaitsAreServed, WaitsForEver, Busy
<1> QED BY <1>1, <1>2, <1>3, PTL DEF Spec
=============================================================================
