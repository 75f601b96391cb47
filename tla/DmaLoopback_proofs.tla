------------------------- MODULE DmaLoopback_proofs -------------------------
(***************************************************************************)
(* The loopback test for every packet size, loop depth and number of       *)
(* frames, wherever the signal comes and whatever the loop corrupts: types *)
(* and bounds, the speed meter, and the count of wrong words.              *)
(***************************************************************************)
EXTENDS DmaLoopback, DmaEngine_proofs, FiniteSetTheorems, SequenceTheorems, TLAPS

(* MeterCounts says nothing between load and store; what holds there is     *)
(* that the count that was read is what the meter will hold but for this    *)
(* frame, also when the handler comes in between and resets FrameCounter.   *)
MeterInv ==
  /\ since \in Nat /\ kept \in Nat
  /\ MeterCounts
  /\ pc = "store" => loaded = since + kept

LEMMA MeterInit == Init => MeterInv
BY DEF Init, MeterInv, MeterCounts

(* Everything but load, store and handler leaves the meter alone and does   *)
(* not come from, or lead to, the place between load and store.             *)
LEMMA MeterUntouched ==
  ASSUME MeterInv, UNCHANGED <<FrameCounter, loaded, since, kept>>,
         pc' = pc \/ (pc # "store" /\ pc' # "store")
  PROVE  MeterInv'
BY DEF MeterInv, MeterCounts

LEMMA MeterStep == MeterInv /\ [Next]_vars => MeterInv'
<1> SUFFICES ASSUME MeterInv, [Next]_vars PROVE MeterInv'
  OBVIOUS
<1>1. CASE Load
  BY <1>1 DEF Load, Goto, MeterInv, MeterCounts
<1>2. CASE Store
  BY <1>2 DEF Store, Goto, MeterInv, MeterCounts
<1>3. CASE SpeedCalculate
  <2>1. CASE pc = "store"
    BY <1>3, <2>1 DEF SpeedCalculate, MeterInv, MeterCounts
  <2>2. CASE pc # "store"
    BY <1>3, <2>2 DEF SpeedCalculate, MeterInv, MeterCounts
  <2> QED BY <2>1, <2>2
<1>4. CASE Map \/ SetUp \/ FillAndSetAlarm
  BY <1>4, MeterUntouched DEF Map, SetUp, FillAndSetAlarm, Goto, meter
<1>5. CASE ClearS2MM \/ ClearMM2S \/ StartMM2S \/ StartS2MM
  BY <1>5, MeterUntouched DEF ClearS2MM, ClearMM2S, StartMM2S, StartS2MM, Goto, meter
<1>6. CASE IsMM2SIOC \/ IsS2MMIOC \/ Compare \/ Flush
  BY <1>6, MeterUntouched DEF IsMM2SIOC, IsS2MMIOC, Compare, Flush, Goto, meter
<1>7. CASE SIGALRM \/ MM2SWord \/ S2MMWord \/ DmaError
  BY <1>7, MeterUntouched DEF SIGALRM, MM2SWord, S2MMWord, DmaError, meter
<1>8. CASE UNCHANGED vars
  BY <1>8, MeterUntouched DEF vars, meter
<1> QED BY <1>1, <1>2, <1>3, <1>4, <1>5, <1>6, <1>7, <1>8 DEF Next, Program

(* Between two reports FrameCounter is the number of frames finished since  *)
(* the last one, but for a reset lost between load and store (33, 214).     *)
THEOREM MeterCorrect == Spec => []MeterCounts
<1>1. MeterInv => MeterCounts
  BY DEF MeterInv
<1> QED BY MeterInit, MeterStep, <1>1, PTL DEF Spec

-----------------------------------------------------------------------------
(* Types. *)

LoopTypeOK ==
  /\ pc \in {"map", "init", "dead", "fill", "clear_s2mm", "clear_mm2s", "start_mm2s",
             "start_s2mm", "wait_mm2s", "wait_s2mm", "compare", "flush", "load", "store"}
  /\ ber_num \in Nat /\ FrameCounter \in Nat /\ loaded \in Nat /\ frames \in Nat
  /\ flips \in Nat /\ since \in Nat /\ kept \in Nat
  /\ FrameCounter <= frames /\ loaded <= frames
  /\ alarm \in {"off", "set", "raised"}
FifoTypeOK == fifo \in Seq([word : Nat, last : BOOLEAN]) /\ Len(fifo) <= FifoDepth

LEMMA TypeParts == TypeOK <=> EngineTypeOK /\ LoopTypeOK /\ FifoTypeOK
BY DEF TypeOK, LoopTypeOK, FifoTypeOK

LEMMA TypePartsNext == EngineTypeOK' /\ LoopTypeOK' /\ FifoTypeOK' => TypeOK'
BY DEF TypeOK, LoopTypeOK, FifoTypeOK

LEMMA InitType == Init => TypeOK
<1> SUFFICES ASSUME Init PROVE TypeOK
  OBVIOUS
<1> USE DmaAssumption, LoopbackAssumption
<1>1. Flags /\ Buffers
  BY ZerosType DEF Init, EngineInit, Flags, Buffers
<1>2. Counts
  BY DEF Init, EngineInit, Counts, Channels
<1>3. LoopTypeOK /\ FifoTypeOK
  BY DEF Init, LoopTypeOK, FifoTypeOK
<1> QED BY <1>1, <1>2, <1>3, TypeParts, EngineParts

(* The set-up, and the steps of the program that leave the engine alone. *)
LEMMA SetUpType == TypeOK /\ (Map \/ SetUp \/ FillAndSetAlarm) => TypeOK'
<1> SUFFICES ASSUME TypeOK, Map \/ SetUp \/ FillAndSetAlarm PROVE TypeOK'
  OBVIOUS
<1>0. EngineTypeOK /\ LoopTypeOK /\ FifoTypeOK
  BY TypeParts
<1>1. LoopTypeOK' /\ FifoTypeOK'
  BY <1>0 DEF Map, SetUp, FillAndSetAlarm, Goto, meter, LoopTypeOK, FifoTypeOK
<1>2. EngineTypeOK'
  <2>1. CASE Map
    BY <1>0, <2>1, MemoryMapType, EngineSame DEF Map
  <2>2. CASE SetUp
    BY <1>0, <2>2, InitialType DEF SetUp
  <2>3. CASE FillAndSetAlarm
    <3>1. Buffers'
      BY <1>0, <2>3, EngineParts, DmaAssumption DEF FillAndSetAlarm, Buffers
    <3>2. Flags' /\ Counts'
      BY <1>0, <2>3, EngineParts DEF FillAndSetAlarm, regs, Flags, Counts
    <3> QED BY <3>1, <3>2, EnginePartsNext
  <2> QED BY <2>1, <2>2, <2>3
<1> QED BY <1>1, <1>2, TypePartsNext

LEMMA TransferType ==
  TypeOK /\ (ClearS2MM \/ ClearMM2S \/ StartMM2S \/ StartS2MM \/ IsMM2SIOC \/ IsS2MMIOC) => TypeOK'
<1> SUFFICES ASSUME TypeOK,
                    ClearS2MM \/ ClearMM2S \/ StartMM2S \/ StartS2MM \/ IsMM2SIOC \/ IsS2MMIOC
             PROVE  TypeOK'
  OBVIOUS
<1>0. EngineTypeOK /\ LoopTypeOK /\ FifoTypeOK
  BY TypeParts
<1>1. LoopTypeOK' /\ FifoTypeOK'
  BY <1>0 DEF ClearS2MM, ClearMM2S, StartMM2S, StartS2MM, IsMM2SIOC, IsS2MMIOC, Goto, meter,
     LoopTypeOK, FifoTypeOK
<1>2. EngineTypeOK'
  <2> USE ChannelsAre, DmaAssumption
  <2>1. CASE ClearS2MM
    BY <1>0, <2>1, ClearType DEF ClearS2MM
  <2>2. CASE ClearMM2S
    BY <1>0, <2>2, ClearType DEF ClearMM2S
  <2>3. CASE StartMM2S
    BY <1>0, <2>3, LengthType DEF StartMM2S
  <2>4. CASE StartS2MM
    BY <1>0, <2>4, LengthType DEF StartS2MM
  <2>5. CASE IsMM2SIOC \/ IsS2MMIOC
    BY <1>0, <2>5, EngineSame DEF IsMM2SIOC, IsS2MMIOC
  <2> QED BY <2>1, <2>2, <2>3, <2>4, <2>5
<1> QED BY <1>1, <1>2, TypePartsNext

(* Of the first n words, those that differ. *)
Differ(n) == {i \in 1 .. n : rx_packet[i] # tx_packet[i]}

LEMMA DifferCount ==
  ASSUME NEW n \in Nat
  PROVE  IsFiniteSet(Differ(n)) /\ Cardinality(Differ(n)) \in Nat
<1>1. IsFiniteSet(1 .. n)
  BY FS_Interval
<1>2. Differ(n) \in SUBSET (1 .. n)
  BY DEF Differ
<1> QED BY <1>1, <1>2, FS_Subset, FS_CardinalityType

LEMMA WrongIs == Wrong = Differ(length["S2MM"])
BY DEF Wrong, Differ

LEMMA CompareType ==
  TypeOK /\ (Compare \/ Flush \/ Load \/ Store \/ SIGALRM \/ SpeedCalculate) => TypeOK'
<1> SUFFICES ASSUME TypeOK, Compare \/ Flush \/ Load \/ Store \/ SIGALRM \/ SpeedCalculate
             PROVE  TypeOK'
  OBVIOUS
<1>0. EngineTypeOK /\ LoopTypeOK /\ FifoTypeOK
  BY TypeParts
<1>1. LoopTypeOK'
  <2>1. CASE Compare
    <3>1. Cardinality(Wrong) \in Nat
      BY <1>0, WrongIs, DifferCount, ChannelsAre DEF EngineTypeOK
    <3>2. ber_num + Cardinality(Wrong) \in Nat
      BY <1>0, <3>1 DEF LoopTypeOK
    <3> QED BY <1>0, <2>1, <3>2 DEF Compare, Goto, meter, LoopTypeOK
  <2>2. CASE Flush \/ Load
    BY <1>0, <2>2 DEF Flush, Load, Goto, meter, LoopTypeOK
  <2>3. CASE Store
    BY <1>0, <2>3 DEF Store, Goto, LoopTypeOK
  <2>4. CASE SIGALRM \/ SpeedCalculate
    BY <1>0, <2>4 DEF SIGALRM, SpeedCalculate, meter, LoopTypeOK
  <2> QED BY <2>1, <2>2, <2>3, <2>4
<1>2. FifoTypeOK'
  BY <1>0 DEF Compare, Flush, Load, Store, SIGALRM, SpeedCalculate, Goto, FifoTypeOK
<1>3. EngineTypeOK'
  <2>1. CASE Flush
    <3>1. Buffers'
      BY <1>0, <2>1, EngineParts, ZerosType, DmaAssumption DEF Flush, Buffers
    <3>2. Flags' /\ Counts'
      BY <1>0, <2>1, EngineParts DEF Flush, regs, Flags, Counts
    <3> QED BY <3>1, <3>2, EnginePartsNext
  <2>2. CASE Compare \/ Load \/ Store \/ SIGALRM \/ SpeedCalculate
    BY <1>0, <2>2, EngineSame DEF Compare, Load, Store, SIGALRM, SpeedCalculate
  <2> QED BY <2>1, <2>2
<1> QED BY <1>1, <1>2, <1>3, TypePartsNext

(* What a word that goes into the loop, or comes out of it, looks like. *)
LEMMA EngineStepType == TypeOK /\ (MM2SWord \/ S2MMWord \/ DmaError) => TypeOK'
<1> SUFFICES ASSUME TypeOK, MM2SWord \/ S2MMWord \/ DmaError PROVE TypeOK'
  OBVIOUS
<1>0. EngineTypeOK /\ LoopTypeOK /\ FifoTypeOK
  BY TypeParts
<1>1. CASE MM2SWord
  <2>1. EngineTypeOK' /\ MM2SWordOut \in Nat
    BY <1>0, <1>1, MM2SType DEF MM2SWord
  <2>2. MM2SEnds \in BOOLEAN
    BY DEF MM2SEnds
  <2>3. LoopTypeOK'
    BY <1>0, <1>1 DEF MM2SWord, meter, LoopTypeOK
  <2> HIDE DEF MM2SEnds, MM2SWordOut
  <2>4. [word |-> MM2SWordOut, last |-> MM2SEnds] \in [word : Nat, last : BOOLEAN]
    BY <2>1, <2>2, Zenon
  <2> DEFINE e == [word |-> MM2SWordOut, last |-> MM2SEnds]
  <2> HIDE DEF e
  <2>5. e \in [word : Nat, last : BOOLEAN] /\ fifo' = Append(fifo, e) /\ Len(fifo) < FifoDepth
    BY <1>1, <2>4 DEF e, MM2SWord
  <2>6. FifoTypeOK'
    BY <1>0, <2>5, LoopbackAssumption DEF FifoTypeOK
  <2> QED BY <2>1, <2>3, <2>6, TypePartsNext
<1>2. CASE S2MMWord
  <2>1. fifo # <<>> /\ fifo' = Tail(fifo)
    BY <1>2 DEF S2MMWord
  <2>2. FifoTypeOK'
    BY <1>0, <2>1, LoopbackAssumption DEF FifoTypeOK
  <2>3. PICK flip \in {0, 1} :
           flips' = flips + flip /\ S2MMMoves(Head(fifo).word + flip, Head(fifo).last)
    BY <1>2 DEF S2MMWord
  <2>4. LoopTypeOK'
    BY <1>0, <1>2, <2>3 DEF S2MMWord, meter, LoopTypeOK
  <2>5. Head(fifo) \in [word : Nat, last : BOOLEAN]
    <3> DEFINE R == [word : Nat, last : BOOLEAN]
    <3>1. fifo \in Seq(R)
      BY <1>0 DEF FifoTypeOK
    <3> HIDE DEF R
    <3>2. Head(fifo) \in R
      BY <2>1, <3>1
    <3> QED BY <3>2 DEF R
  <2>6. Head(fifo).word + flip \in Nat /\ Head(fifo).last \in BOOLEAN
    BY <2>5
  <2>7. EngineTypeOK'
    BY <1>0, <2>3, <2>6, S2MMType
  <2> QED BY <2>2, <2>4, <2>7, TypePartsNext
<1>3. CASE DmaError
  <2>1. EngineTypeOK'
    BY <1>0, <1>3, FaultType DEF DmaError
  <2>2. LoopTypeOK' /\ FifoTypeOK'
    BY <1>0, <1>3 DEF DmaError, meter, LoopTypeOK, FifoTypeOK
  <2> QED BY <2>1, <2>2, TypePartsNext
<1> QED BY <1>1, <1>2, <1>3

LEMMA StepType == TypeOK /\ [Next]_vars => TypeOK'
<1>1. TypeOK /\ UNCHANGED vars => TypeOK'
  BY DEF TypeOK, EngineTypeOK, vars, meter, mem, regs
<1> QED BY <1>1, SetUpType, TransferType, CompareType, EngineStepType DEF Next, Program

(* Neither channel is told, or left, to move more words than its buffer     *)
(* holds, the loop never holds more than its depth, and the meter never     *)
(* shows more frames than the test has run (dma_init.c 11-37, 168-216).     *)
THEOREM TypeCorrect == Spec => []TypeOK
BY InitType, StepType, PTL DEF Spec

-----------------------------------------------------------------------------
(* The count of wrong words. *)

(* n words of the frame have come back: the loop holds the ones after them, *)
(* in order and the last of the frame marked, and MM2S has the rest.        *)
Carries(n) ==
  /\ n + Len(fifo) <= TX_WORDS
  /\ \A k \in 1 .. Len(fifo) :
       /\ fifo[k].word = tx_packet[n + k]
       /\ fifo[k].last = (n + k = TX_WORDS)
  /\ Busy("MM2S") =>
       length["MM2S"] = TX_WORDS /\ left["MM2S"] = TX_WORDS - n - Len(fifo)

Counted(n) == flips = ber_num + Cardinality(Differ(n))

(* S2MM has the whole frame, or is receiving it, or has failed and leaves   *)
(* the program waiting.                                                     *)
Complete ==
  /\ ~halted["S2MM"] /\ ~Busy("S2MM") /\ length["S2MM"] = TX_WORDS
  /\ fifo = <<>> /\ ~Busy("MM2S")
  /\ Counted(TX_WORDS)
Receiving ==
  /\ ~halted["S2MM"] /\ Busy("S2MM") /\ length["S2MM"] = RX_WORDS
  /\ Carries(RX_WORDS - left["S2MM"])
  /\ Counted(RX_WORDS - left["S2MM"])
Failed == halted["S2MM"] /\ ~Busy("S2MM")

BeforeStart == {"map", "init", "dead"}
Quiet == BeforeStart \cup {"fill", "clear_s2mm", "clear_mm2s", "start_mm2s", "flush", "load", "store"}

QuietInv ==
  pc \in Quiet =>
    /\ fifo = <<>> /\ ber_num = flips
    /\ ~Busy("MM2S") /\ ~Busy("S2MM")
    /\ pc \notin BeforeStart => ~halted["MM2S"] /\ ~halted["S2MM"]

SendInv ==
  /\ Busy("MM2S") => ~halted["MM2S"]
  /\ pc = "start_mm2s" => ~ioc["MM2S"]
  /\ pc \in {"start_s2mm", "wait_mm2s"} /\ ioc["MM2S"] => ~Busy("MM2S") /\ ~halted["MM2S"]
  /\ pc \in {"wait_s2mm", "compare"} => ~Busy("MM2S") /\ ~halted["MM2S"]

ReceiveInv ==
  /\ pc \in {"clear_mm2s", "start_mm2s", "start_s2mm"} => ~ioc["S2MM"]
  /\ pc = "start_s2mm" =>
       ~halted["S2MM"] /\ ~Busy("S2MM") /\ Carries(0) /\ ber_num = flips
  /\ pc \in {"wait_mm2s", "wait_s2mm"} =>
       IF ioc["S2MM"] THEN Complete ELSE Receiving \/ Failed
  /\ pc = "compare" => Complete

LoopInv == QuietInv /\ SendInv /\ ReceiveInv

LEMMA LoopInit == Init => LoopInv
<1> SUFFICES ASSUME Init PROVE LoopInv
  OBVIOUS
<1>1. pc = "map" /\ fifo = <<>> /\ ber_num = flips /\ ~Busy("MM2S") /\ ~Busy("S2MM")
  BY DEF Init, EngineInit, Busy, Channels
<1> QED BY <1>1 DEF LoopInv, QuietInv, SendInv, ReceiveInv, Quiet, BeforeStart

(* Where the engine is left alone, what is said of a frame stays.  *)
LEMMA FrameSame ==
  ASSUME UNCHANGED <<fifo, flips, ber_num, tx_packet, rx_packet, halted, left, length>>
  PROVE  /\ (Busy("MM2S")' <=> Busy("MM2S")) /\ (Busy("S2MM")' <=> Busy("S2MM"))
         /\ \A n : Carries(n)' <=> Carries(n)
         /\ (Complete' <=> Complete) /\ (Receiving' <=> Receiving) /\ (Failed' <=> Failed)
<1>1. (Busy("MM2S")' <=> Busy("MM2S")) /\ (Busy("S2MM")' <=> Busy("S2MM"))
  BY DEF Busy
<1>2. \A n : Carries(n)' <=> Carries(n)
  BY DEF Carries, Busy
<1>3. \A n : Counted(n)' <=> Counted(n)
  BY DEF Counted, Differ
<1>4. Complete' <=> Complete
  BY <1>1, <1>3 DEF Complete
<1>5. Receiving' <=> Receiving
  BY <1>1, <1>2, <1>3 DEF Receiving
<1> QED BY <1>1, <1>2, <1>4, <1>5 DEF Failed

LEMMA SetUpLoop ==
  TypeOK /\ LoopInv /\ (Map \/ SetUp \/ FillAndSetAlarm) => LoopInv'
<1> SUFFICES ASSUME TypeOK, LoopInv, Map \/ SetUp \/ FillAndSetAlarm PROVE LoopInv'
  OBVIOUS
<1>1. /\ pc \in BeforeStart \cup {"fill"} /\ pc' \in {"init", "dead", "fill", "clear_s2mm"}
      /\ UNCHANGED <<fifo, ber_num, flips>>
  BY DEF Map, SetUp, FillAndSetAlarm, Goto, BeforeStart
<1>2. fifo = <<>> /\ ber_num = flips /\ ~Busy("MM2S") /\ ~Busy("S2MM")
  BY <1>1 DEF LoopInv, QuietInv, Quiet
<1>3. ~Busy("MM2S")' /\ ~Busy("S2MM")'
  BY <1>2 DEF Map, SetUp, FillAndSetAlarm, MemoryMap, InitialAXIDMA, regs, Busy, Channels
<1>4. pc' \in {"fill", "clear_s2mm"} => ~halted'["MM2S"] /\ ~halted'["S2MM"]
  <2>1. CASE Map
    BY <2>1 DEF Map, Goto
  <2>2. CASE SetUp
    BY <2>2 DEF SetUp, InitialAXIDMA, Channels
  <2>3. CASE FillAndSetAlarm
    BY <2>3 DEF FillAndSetAlarm, regs, LoopInv, QuietInv, Quiet, BeforeStart
  <2> QED BY <2>1, <2>2, <2>3
<1> QED BY <1>1, <1>2, <1>3, <1>4 DEF LoopInv, QuietInv, SendInv, ReceiveInv, Quiet, BeforeStart

(* Both clears find everything at rest, so an IOC that is seen later is of  *)
(* this frame.                                                              *)
LEMMA ClearLoop == TypeOK /\ LoopInv /\ (ClearS2MM \/ ClearMM2S) => LoopInv'
<1> SUFFICES ASSUME TypeOK, LoopInv, ClearS2MM \/ ClearMM2S PROVE LoopInv'
  OBVIOUS
<1>0. ioc \in [Channels -> BOOLEAN] /\ "MM2S" \in Channels /\ "S2MM" \in Channels
  BY ChannelsAre DEF TypeOK, EngineTypeOK
<1>1. UNCHANGED <<fifo, ber_num, flips, halted, left>>
  BY DEF ClearS2MM, ClearMM2S, Goto, ClearAXIDMAInterrupt
<1>2. CASE ClearS2MM
  <2>1. pc = "clear_s2mm" /\ pc' = "clear_mm2s" /\ ~ioc'["S2MM"]
    BY <1>0, <1>2 DEF ClearS2MM, Goto, ClearAXIDMAInterrupt
  <2> QED BY <1>1, <2>1 DEF LoopInv, QuietInv, SendInv, ReceiveInv, Quiet, BeforeStart, Busy
<1>3. CASE ClearMM2S
  <2>1. pc = "clear_mm2s" /\ pc' = "start_mm2s" /\ ~ioc'["MM2S"] /\ ioc'["S2MM"] = ioc["S2MM"]
    BY <1>0, <1>3 DEF ClearMM2S, Goto, ClearAXIDMAInterrupt, Channels
  <2> QED BY <1>1, <2>1 DEF LoopInv, QuietInv, SendInv, ReceiveInv, Quiet, BeforeStart, Busy
<1> QED BY <1>2, <1>3

LEMMA StartMM2SLoop == TypeOK /\ LoopInv /\ StartMM2S => LoopInv'
<1> SUFFICES ASSUME TypeOK, LoopInv, StartMM2S PROVE LoopInv'
  OBVIOUS
<1>1. pc = "start_mm2s" /\ pc' = "start_s2mm" /\ UNCHANGED <<fifo, ber_num, flips, halted, ioc, mem>>
  BY DEF StartMM2S, Goto, SetTransferingBufferSize
<1>2. /\ fifo = <<>> /\ ber_num = flips /\ ~Busy("S2MM")
      /\ ~halted["MM2S"] /\ ~halted["S2MM"] /\ ~ioc["MM2S"] /\ ~ioc["S2MM"]
  BY <1>1 DEF LoopInv, QuietInv, SendInv, ReceiveInv, Quiet, BeforeStart
<1>3. left'["MM2S"] = TX_WORDS /\ left'["S2MM"] = left["S2MM"] /\ length'["MM2S"] = TX_WORDS
  BY <1>2, ChannelsAre DEF StartMM2S, SetTransferingBufferSize, TypeOK, EngineTypeOK
<1>4. Carries(0)'
  BY <1>1, <1>2, <1>3, DmaAssumption DEF Carries, Busy
<1>5. ~Busy("S2MM")'
  BY <1>2, <1>3 DEF Busy
<1> QED BY <1>1, <1>2, <1>4, <1>5 DEF LoopInv, QuietInv, SendInv, ReceiveInv, Quiet, BeforeStart

LEMMA NoneDiffer == Cardinality(Differ(0)) = 0
<1>1. Differ(0) = {}
  BY DEF Differ
<1> QED BY <1>1, FS_EmptySet

LEMMA StartS2MMLoop == TypeOK /\ LoopInv /\ StartS2MM => LoopInv'
<1> SUFFICES ASSUME TypeOK, LoopInv, StartS2MM PROVE LoopInv'
  OBVIOUS
<1>1. pc = "start_s2mm" /\ pc' = "wait_mm2s" /\ UNCHANGED <<fifo, ber_num, flips, halted, ioc, mem>>
  BY DEF StartS2MM, Goto, SetTransferingBufferSize
<1>2. ~halted["S2MM"] /\ ~ioc["S2MM"] /\ Carries(0) /\ ber_num = flips
  BY <1>1 DEF LoopInv, ReceiveInv
<1>3. /\ left'["S2MM"] = RX_WORDS /\ length'["S2MM"] = RX_WORDS
      /\ left'["MM2S"] = left["MM2S"] /\ length'["MM2S"] = length["MM2S"]
  BY <1>2, ChannelsAre DEF StartS2MM, SetTransferingBufferSize, TypeOK, EngineTypeOK
<1>4. Carries(0)'
  BY <1>1, <1>2, <1>3 DEF Carries, Busy, mem
<1>5. Counted(0)'
  <2>1. ber_num \in Nat /\ Differ(0)' = Differ(0)
    BY <1>1 DEF TypeOK, Differ, mem
  <2> QED BY <1>1, <1>2, <2>1, NoneDiffer DEF Counted
<1>6. Receiving'
  <2>1. RX_WORDS - left'["S2MM"] = 0
    BY <1>3, DmaAssumption
  <2>2. Busy("S2MM")'
    BY <1>3, DmaAssumption DEF Busy
  <2> QED BY <1>1, <1>2, <1>3, <1>4, <1>5, <2>1, <2>2 DEF Receiving
<1> QED BY <1>1, <1>2, <1>3, <1>6 DEF LoopInv, QuietInv, SendInv, ReceiveInv, Quiet,
                                     BeforeStart, Busy

LEMMA WaitLoop == TypeOK /\ LoopInv /\ (IsMM2SIOC \/ IsS2MMIOC) => LoopInv'
<1> SUFFICES ASSUME TypeOK, LoopInv, IsMM2SIOC \/ IsS2MMIOC PROVE LoopInv'
  OBVIOUS
<1>0. UNCHANGED <<fifo, flips, ber_num, tx_packet, rx_packet, halted, ioc, left, length>>
  BY DEF IsMM2SIOC, IsS2MMIOC, Goto, mem, regs
<1>1. /\ (Busy("MM2S")' <=> Busy("MM2S")) /\ (Busy("S2MM")' <=> Busy("S2MM"))
      /\ (Complete' <=> Complete) /\ (Receiving' <=> Receiving) /\ (Failed' <=> Failed)
  BY <1>0, FrameSame
<1>2. CASE IsMM2SIOC
  <2>1. pc = "wait_mm2s" /\ pc' = "wait_s2mm" /\ ioc["MM2S"]
    BY <1>2 DEF IsMM2SIOC, Goto
  <2> QED BY <1>0, <1>1, <2>1 DEF LoopInv, QuietInv, SendInv, ReceiveInv, Quiet, BeforeStart
<1>3. CASE IsS2MMIOC
  <2>1. pc = "wait_s2mm" /\ pc' = "compare" /\ ioc["S2MM"]
    BY <1>3 DEF IsS2MMIOC, Goto
  <2> QED BY <1>0, <1>1, <2>1 DEF LoopInv, QuietInv, SendInv, ReceiveInv, Quiet, BeforeStart
<1> QED BY <1>2, <1>3

LEMMA CompareLoop == TypeOK /\ LoopInv /\ Compare => LoopInv'
<1> SUFFICES ASSUME TypeOK, LoopInv, Compare PROVE LoopInv'
  OBVIOUS
<1>1. /\ pc = "compare" /\ pc' = "flush" /\ ber_num' = ber_num + Cardinality(Wrong)
      /\ UNCHANGED <<fifo, flips, halted, ioc, left, length>>
  BY DEF Compare, Goto, regs
<1>2. Complete /\ ~Busy("MM2S") /\ ~halted["MM2S"]
  BY <1>1 DEF LoopInv, SendInv, ReceiveInv
<1>3. ber_num' = flips
  BY <1>1, <1>2, WrongIs DEF Complete, Counted
<1> QED BY <1>1, <1>2, <1>3 DEF LoopInv, QuietInv, SendInv, ReceiveInv, Complete, Quiet,
                               BeforeStart, Busy

LEMMA RestLoop == TypeOK /\ LoopInv /\ (Flush \/ Load \/ Store) => LoopInv'
<1> SUFFICES ASSUME TypeOK, LoopInv, Flush \/ Load \/ Store PROVE LoopInv'
  OBVIOUS
<1>1. /\ pc \in {"flush", "load", "store"} /\ pc' \in {"load", "store", "clear_s2mm"}
      /\ UNCHANGED <<fifo, flips, ber_num, halted, ioc, left, length>>
  BY DEF Flush, Load, Store, Goto, regs
<1> QED BY <1>1 DEF LoopInv, QuietInv, SendInv, ReceiveInv, Quiet, BeforeStart, Busy

LEMMA SignalLoop == TypeOK /\ LoopInv /\ (SIGALRM \/ SpeedCalculate \/ UNCHANGED vars) => LoopInv'
<1> SUFFICES ASSUME LoopInv, SIGALRM \/ SpeedCalculate \/ UNCHANGED vars PROVE LoopInv'
  OBVIOUS
<1>1. UNCHANGED <<pc, fifo, flips, ber_num, tx_packet, rx_packet, halted, ioc, left, length>>
  BY DEF SIGALRM, SpeedCalculate, vars, mem, regs
<1> QED BY <1>1, FrameSame DEF LoopInv, QuietInv, SendInv, ReceiveInv

(* A channel that moves words is one the program waits for, or is about to. *)
LEMMA WhenBusy ==
  ASSUME TypeOK, LoopInv
  PROVE  /\ Busy("MM2S") => /\ pc \in {"start_s2mm", "wait_mm2s"}
                            /\ ~halted["MM2S"] /\ ~ioc["MM2S"]
         /\ Busy("S2MM") => /\ pc \in {"wait_mm2s", "wait_s2mm"}
                            /\ ~ioc["S2MM"] /\ Receiving
<1>1. pc \notin Quiet => pc \in {"start_s2mm", "wait_mm2s", "wait_s2mm", "compare"}
  BY DEF TypeOK, Quiet, BeforeStart
<1> QED BY <1>1 DEF LoopInv, QuietInv, SendInv, ReceiveInv, Complete, Failed

(* The engine puts the frame's next word into the loop. *)
LEMMA CarryOn ==
  ASSUME TypeOK, NEW n \in Nat, Carries(n), MM2SWord
  PROVE  Carries(n)'
<1>1. /\ fifo \in Seq([word : Nat, last : BOOLEAN]) /\ left["MM2S"] \in Nat
      /\ left \in [Channels -> Nat] /\ length \in [Channels -> Nat]
  BY ChannelsAre DEF TypeOK, EngineTypeOK
<1>2. /\ Busy("MM2S") /\ length["MM2S"] = TX_WORDS /\ left["MM2S"] = TX_WORDS - n - Len(fifo)
      /\ left'["MM2S"] = left["MM2S"] - 1 /\ UNCHANGED <<length, tx_packet>>
  BY <1>1, ChannelsAre DEF Carries, MM2SWord, MM2SMoves, mem
<1>3. left["MM2S"] >= 1 /\ n + Len(fifo) + 1 <= TX_WORDS /\ Len(fifo) \in Nat
  BY <1>1, <1>2, DmaAssumption DEF Busy
<1> DEFINE e == [word |-> MM2SWordOut, last |-> MM2SEnds]
<1>4. fifo' = Append(fifo, e)
  BY DEF MM2SWord
<1>5. e.word = tx_packet[n + Len(fifo) + 1]
  <2>1. At("MM2S") = n + Len(fifo) + 1
    BY <1>2, <1>3, DmaAssumption DEF At
  <2>2. At("MM2S") <= TX_WORDS
    BY <1>3, <2>1
  <2> QED BY <2>1, <2>2 DEF MM2SWordOut
<1>6. e.last = (n + Len(fifo) + 1 = TX_WORDS)
  <2>1. (left["MM2S"] = 1) <=> (n + Len(fifo) + 1 = TX_WORDS)
    BY <1>2, <1>3, DmaAssumption
  <2> QED BY <2>1 DEF MM2SEnds
<1> HIDE DEF e
<1>7. /\ Len(fifo') = Len(fifo) + 1 /\ fifo'[Len(fifo) + 1] = e
      /\ \A k \in 1 .. Len(fifo) : fifo'[k] = fifo[k]
  BY <1>1, <1>4
<1>8. n + Len(fifo') <= TX_WORDS
  BY <1>3, <1>7
<1>9. \A k \in 1 .. Len(fifo') :
        fifo'[k].word = tx_packet[n + k] /\ fifo'[k].last = (n + k = TX_WORDS)
  <2> TAKE k \in 1 .. Len(fifo')
  <2>1. CASE k = Len(fifo) + 1
    <3>1. n + k = n + Len(fifo) + 1
      BY <1>3, <2>1
    <3> QED BY <1>5, <1>6, <1>7, <2>1, <3>1
  <2>2. CASE k \in 1 .. Len(fifo)
    BY <1>7, <2>2 DEF Carries
  <2> QED BY <1>3, <1>7, <2>1, <2>2
<1>10. left'["MM2S"] = TX_WORDS - n - Len(fifo')
  BY <1>2, <1>3, <1>7, DmaAssumption
<1> QED BY <1>2, <1>8, <1>9, <1>10 DEF Carries

LEMMA MM2SLoop == TypeOK /\ LoopInv /\ MM2SWord => LoopInv'
<1> SUFFICES ASSUME TypeOK, LoopInv, MM2SWord PROVE LoopInv'
  OBVIOUS
<1>1. /\ Busy("MM2S") /\ pc \in {"start_s2mm", "wait_mm2s"} /\ ~halted["MM2S"] /\ ~ioc["MM2S"]
  BY WhenBusy DEF MM2SWord, MM2SMoves
<1>2. /\ UNCHANGED <<pc, flips, ber_num, halted, length, tx_packet, rx_packet>>
      /\ left'["S2MM"] = left["S2MM"] /\ ioc'["S2MM"] = ioc["S2MM"]
  BY ChannelsAre DEF MM2SWord, MM2SMoves, mem, TypeOK, EngineTypeOK
<1>3. ioc'["MM2S"] => ~Busy("MM2S")'
  <2>1. left \in [Channels -> Nat] /\ ioc \in [Channels -> BOOLEAN]
    BY DEF TypeOK, EngineTypeOK
  <2>2. left' = [left EXCEPT !["MM2S"] = left["MM2S"] - 1]
        /\ ioc' = [ioc EXCEPT !["MM2S"] = ioc["MM2S"] \/ MM2SEnds]
    BY DEF MM2SWord, MM2SMoves
  <2>3. ioc'["MM2S"] => left["MM2S"] = 1
    BY <1>1, <2>1, <2>2, ChannelsAre DEF MM2SEnds
  <2> QED BY <2>1, <2>2, <2>3, ChannelsAre DEF Busy
<1>4. (Busy("S2MM")' <=> Busy("S2MM")) /\ \A n : Counted(n)' <=> Counted(n)
  BY <1>2 DEF Busy, Counted, Differ
<1>5. CASE pc = "start_s2mm"
  <2>1. Carries(0)'
    BY <1>5, CarryOn DEF LoopInv, ReceiveInv
  <2> QED BY <1>1, <1>2, <1>3, <1>4, <1>5, <2>1
          DEF LoopInv, QuietInv, SendInv, ReceiveInv, Quiet, BeforeStart
<1>6. CASE pc = "wait_mm2s"
  <2>1. ~ioc["S2MM"] /\ (Receiving \/ Failed)
    BY <1>1, <1>6 DEF LoopInv, ReceiveInv, Complete
  <2>2. Receiving => Receiving'
    <3> SUFFICES ASSUME Receiving PROVE Receiving'
      OBVIOUS
    <3>1. RX_WORDS - left["S2MM"] \in Nat
      BY ChannelsAre, DmaAssumption DEF Receiving, TypeOK, EngineTypeOK
    <3>2. PICK n \in Nat : n = RX_WORDS - left["S2MM"]
      BY <3>1
    <3>3. n = RX_WORDS - left'["S2MM"]
      BY <1>2, <3>2
    <3>4. Carries(n)'
      BY <3>2, CarryOn DEF Receiving
    <3>5. Carries(RX_WORDS - left["S2MM"])'
      BY <3>3, <3>4 DEF Carries
    <3> QED BY <1>2, <1>4, <3>5 DEF Receiving
  <2>3. Failed => Failed'
    BY <1>2, <1>4 DEF Failed
  <2> QED BY <1>1, <1>2, <1>3, <1>6, <2>1, <2>2, <2>3
          DEF LoopInv, QuietInv, SendInv, ReceiveInv, Quiet, BeforeStart
<1> QED BY <1>1, <1>5, <1>6

(* One more word has come back: it counts if and only if it was corrupted. *)
LEMMA CountOn ==
  ASSUME NEW n \in Nat, NEW word \in Nat, NEW flip \in {0, 1},
         ber_num \in Nat, flips \in Nat, Counted(n),
         rx_packet \in [1 .. RX_WORDS -> Nat], n + 1 \in 1 .. RX_WORDS,
         word = tx_packet[n + 1],
         rx_packet' = [rx_packet EXCEPT ![n + 1] = word + flip],
         flips' = flips + flip, UNCHANGED <<ber_num, tx_packet>>
  PROVE  Counted(n + 1)'
<1>1. /\ rx_packet'[n + 1] = word + flip
      /\ \A i \in 1 .. n : rx_packet'[i] = rx_packet[i]
  OBVIOUS
<1>2. IsFiniteSet(Differ(n)) /\ Cardinality(Differ(n)) \in Nat /\ n + 1 \notin Differ(n)
  BY DifferCount DEF Differ
<1>3. CASE flip = 0
  <2>1. Differ(n + 1)' = Differ(n)
    <3>1. rx_packet'[n + 1] = tx_packet'[n + 1]
      BY <1>1, <1>3
    <3>2. \A i \in 1 .. n + 1 : i \in 1 .. n \/ i = n + 1
      OBVIOUS
    <3>3. \A i \in 1 .. n : i \in 1 .. n + 1
      OBVIOUS
    <3> QED BY <1>1, <3>1, <3>2, <3>3 DEF Differ
  <2> QED BY <1>2, <1>3, <2>1 DEF Counted
<1>4. CASE flip = 1
  <2>1. Differ(n + 1)' = Differ(n) \cup {n + 1}
    <3>1. rx_packet'[n + 1] # tx_packet'[n + 1]
      BY <1>1, <1>4
    <3>2. \A i \in 1 .. n + 1 : i \in 1 .. n \/ i = n + 1
      OBVIOUS
    <3>3. n + 1 \in 1 .. n + 1 /\ \A i \in 1 .. n : i \in 1 .. n + 1
      OBVIOUS
    <3> QED BY <1>1, <3>1, <3>2, <3>3 DEF Differ
  <2>2. Cardinality(Differ(n + 1)') = Cardinality(Differ(n)) + 1
    BY <1>2, <2>1, FS_AddElement
  <2> QED BY <1>2, <1>4, <2>2 DEF Counted
<1> QED BY <1>3, <1>4

(* When the word that comes out is the only one, the loop is empty after it. *)
LEMMA OneLeft ==
  ASSUME fifo \in Seq([word : Nat, last : BOOLEAN]), Len(fifo) = 1
  PROVE  Tail(fifo) = <<>>
<1> DEFINE R == [word : Nat, last : BOOLEAN]
<1>1. fifo \in Seq(R)
  OBVIOUS
<1> HIDE DEF R
<1>2. fifo # <<>>
  BY <1>1, EmptySeq
<1>3. Tail(fifo) \in Seq(R) /\ Len(Tail(fifo)) = 0
  BY <1>1, <1>2, HeadTailProperties
<1> QED BY <1>3, EmptySeq

LEMMA S2MMLoop == TypeOK /\ LoopInv /\ S2MMWord => LoopInv'
<1> SUFFICES ASSUME TypeOK, LoopInv, S2MMWord PROVE LoopInv'
  OBVIOUS
<1> USE ChannelsAre, DmaAssumption
<1>1. /\ Busy("S2MM") /\ pc \in {"wait_mm2s", "wait_s2mm"} /\ ~ioc["S2MM"] /\ Receiving
  BY WhenBusy DEF S2MMWord, S2MMMoves
<1>2. /\ left \in [Channels -> Nat] /\ length \in [Channels -> Nat] /\ ioc \in [Channels -> BOOLEAN]
      /\ left["S2MM"] <= RX_WORDS /\ left["S2MM"] \in Nat /\ left["MM2S"] \in Nat
      /\ rx_packet \in [1 .. RX_WORDS -> Nat] /\ tx_packet \in [1 .. TX_WORDS -> Nat]
      /\ fifo \in Seq([word : Nat, last : BOOLEAN]) /\ fifo # <<>> /\ fifo' = Tail(fifo)
  BY <1>1 DEF TypeOK, EngineTypeOK, S2MMWord, Receiving
<1>3. PICK n \in Nat : n = RX_WORDS - left["S2MM"]
  BY <1>2
<1>4. PICK flip \in {0, 1} :
         flips' = flips + flip /\ S2MMMoves(Head(fifo).word + flip, Head(fifo).last)
  BY DEF S2MMWord
<1>5. left["S2MM"] >= 1 /\ n + 1 \in 1 .. RX_WORDS /\ At("S2MM") = n + 1
  <2>1. left["S2MM"] > 0 /\ length["S2MM"] = RX_WORDS
    BY <1>1 DEF Busy, Receiving
  <2>2. left["S2MM"] >= 1 /\ n + 1 \in 1 .. RX_WORDS
    BY <1>2, <1>3, <2>1
  <2>3. RX_WORDS - left["S2MM"] + 1 = n + 1
    BY <1>3
  <2> QED BY <2>1, <2>2, <2>3 DEF At
<1>6. Carries(n) /\ Counted(n)
  BY <1>1, <1>3 DEF Receiving
<1>7. /\ Head(fifo).word = tx_packet[n + 1] /\ Head(fifo).last = (n + 1 = TX_WORDS)
      /\ Len(fifo) >= 1 /\ n + 1 \in 1 .. TX_WORDS
  <2>1. Len(fifo) >= 1 /\ Len(fifo) \in Nat /\ Head(fifo) = fifo[1]
    <3> DEFINE R == [word : Nat, last : BOOLEAN]
    <3>1. fifo \in Seq(R)
      BY <1>2
    <3> HIDE DEF R
    <3> QED BY <1>2, <3>1
  <2>2. n + Len(fifo) <= TX_WORDS
    BY <1>6 DEF Carries
  <2>3. fifo[1].word = tx_packet[n + 1] /\ fifo[1].last = (n + 1 = TX_WORDS)
    BY <1>6, <2>1 DEF Carries
  <2> QED BY <2>1, <2>2, <2>3
<1>8. /\ UNCHANGED <<pc, ber_num, halted, tx_packet>>
      /\ rx_packet' = [rx_packet EXCEPT ![n + 1] = tx_packet[n + 1] + flip]
      /\ left'["MM2S"] = left["MM2S"] /\ length'["MM2S"] = length["MM2S"] /\ ioc'["MM2S"] = ioc["MM2S"]
  BY <1>2, <1>4, <1>5, <1>7 DEF S2MMMoves, S2MMWord
<1>9. Counted(n + 1)'
  <2>1. ber_num \in Nat /\ flips \in Nat /\ tx_packet[n + 1] \in Nat
    BY <1>2, <1>7 DEF TypeOK
  <2> QED BY <1>2, <1>4, <1>5, <1>6, <1>8, <2>1, CountOn
<1>10. SendInv'
  BY <1>8 DEF SendInv, LoopInv, Busy
<1>11. CASE n + 1 = TX_WORDS
  <2>1. Head(fifo).last
    BY <1>7, <1>11
  <2>2. left'["S2MM"] = 0 /\ length'["S2MM"] = TX_WORDS /\ ioc'["S2MM"]
    BY <1>2, <1>4, <1>5, <1>11, <2>1 DEF S2MMMoves
  <2>3. Len(fifo) = 1 /\ fifo' = <<>>
    <3>1. Len(fifo) \in Nat /\ n + Len(fifo) <= TX_WORDS
      BY <1>2, <1>6 DEF Carries
    <3>2. n \in Nat /\ Len(fifo) >= 1
      BY <1>7
    <3>3. \A l \in Nat : l >= 1 /\ n + l <= n + 1 => l = 1
      BY <3>2
    <3>4. Len(fifo) = 1
      BY <1>11, <3>1, <3>2, <3>3, Zenon
    <3> QED BY <1>2, <3>4, OneLeft
  <2>4. ~Busy("MM2S")'
    <3>1. ~Busy("MM2S")
      BY <1>2, <1>6, <1>11, <2>3 DEF Carries, Busy
    <3> QED BY <1>8, <3>1 DEF Busy
  <2>5. Complete'
    <3>1. Counted(TX_WORDS)'
      BY <1>9, <1>11 DEF Counted, Differ
    <3> QED BY <1>1, <1>8, <2>2, <2>3, <2>4, <3>1 DEF Complete, Receiving, Busy
  <2> QED BY <1>1, <1>8, <1>10, <2>2, <2>5 DEF LoopInv, QuietInv, ReceiveInv, Quiet, BeforeStart
<1>12. CASE n + 1 # TX_WORDS
  <2>1. ~Head(fifo).last
    BY <1>7, <1>12
  <2>2. /\ left'["S2MM"] = left["S2MM"] - 1 /\ length'["S2MM"] = RX_WORDS /\ ~ioc'["S2MM"]
        /\ left["S2MM"] > 1
    BY <1>1, <1>2, <1>4, <2>1 DEF S2MMMoves, Receiving
  <2>3. n + 1 = RX_WORDS - left'["S2MM"]
    BY <1>2, <1>3, <2>2
  <2>4. /\ Len(fifo') = Len(fifo) - 1
        /\ \A k \in 1 .. Len(fifo') : k + 1 \in 1 .. Len(fifo) /\ fifo'[k] = fifo[k + 1]
    BY <1>2
  <2>5. Carries(n + 1)'
    <3>0. Len(fifo) \in Nat /\ Len(fifo') \in Nat
      BY <1>2, <1>7, <2>4
    <3>1. (n + 1) + Len(fifo') = n + Len(fifo)
      BY <2>4, <3>0
    <3>2. \A k \in 1 .. Len(fifo') : /\ fifo'[k].word = tx_packet'[(n + 1) + k]
                                     /\ fifo'[k].last = ((n + 1) + k = TX_WORDS)
      <4> TAKE k \in 1 .. Len(fifo')
      <4>1. (n + 1) + k = n + (k + 1)
        BY <3>0
      <4> QED BY <1>6, <1>8, <2>4, <4>1 DEF Carries
    <3>3. Busy("MM2S")' => Busy("MM2S")
      BY <1>8 DEF Busy
    <3>4. TX_WORDS - (n + 1) - Len(fifo') = TX_WORDS - n - Len(fifo)
      BY <2>4, <3>0
    <3> QED BY <1>6, <1>8, <3>1, <3>2, <3>3, <3>4 DEF Carries
  <2>6. Receiving'
    <3>1. Carries(RX_WORDS - left["S2MM"])'
      BY <2>3, <2>5 DEF Carries
    <3>2. Counted(RX_WORDS - left["S2MM"])'
      BY <1>9, <2>3 DEF Counted, Differ
    <3>3. Busy("S2MM")' /\ ~halted'["S2MM"]
      BY <1>1, <1>2, <1>8, <2>2 DEF Busy, Receiving
    <3> QED BY <2>2, <3>1, <3>2, <3>3 DEF Receiving
  <2> QED BY <1>1, <1>8, <1>10, <2>2, <2>6 DEF LoopInv, QuietInv, ReceiveInv, Quiet, BeforeStart
<1> QED BY <1>11, <1>12

LEMMA ErrorLoop == TypeOK /\ LoopInv /\ DmaError => LoopInv'
<1> SUFFICES ASSUME TypeOK, LoopInv, DmaError PROVE LoopInv'
  OBVIOUS
<1>1. PICK c \in Channels : Busy(c) /\ Fault(c)
  BY DEF DmaError
<1>2. /\ UNCHANGED <<pc, fifo, flips, ber_num, ioc, length, tx_packet, rx_packet>>
      /\ halted' = [halted EXCEPT ![c] = TRUE] /\ left' = [left EXCEPT ![c] = 0]
  BY <1>1 DEF DmaError, Fault, mem
<1>3. halted \in [Channels -> BOOLEAN] /\ left \in [Channels -> Nat]
  BY DEF TypeOK, EngineTypeOK
<1>4. \A n : Counted(n)' <=> Counted(n)
  BY <1>2 DEF Counted, Differ
<1>5. CASE c = "MM2S"
  <2>1. pc \in {"start_s2mm", "wait_mm2s"} /\ ~ioc["MM2S"]
    BY <1>1, <1>5, WhenBusy
  <2>2. /\ ~Busy("MM2S")' /\ halted'["S2MM"] = halted["S2MM"] /\ left'["S2MM"] = left["S2MM"]
    BY <1>2, <1>3, <1>5, ChannelsAre DEF Busy
  <2>3. \A n : Carries(n) => Carries(n)'
    BY <1>2, <2>2 DEF Carries
  <2>4. CASE pc = "start_s2mm"
    BY <1>2, <2>1, <2>2, <2>3, <2>4
       DEF LoopInv, QuietInv, SendInv, ReceiveInv, Quiet, BeforeStart, Busy
  <2>5. CASE pc = "wait_mm2s"
    <3>1. ~ioc["S2MM"] /\ (Receiving \/ Failed)
      BY <1>1, <1>5, <2>5 DEF LoopInv, ReceiveInv, Complete
    <3>2. Receiving => Receiving'
      <4>1. ASSUME Receiving PROVE Carries(RX_WORDS - left["S2MM"])'
        BY <1>2, <2>2, <4>1 DEF Receiving, Carries
      <4>2. ASSUME Receiving PROVE Counted(RX_WORDS - left["S2MM"])'
        BY <1>2, <2>2, <4>2 DEF Receiving, Counted, Differ
      <4> QED BY <1>2, <2>2, <4>1, <4>2 DEF Receiving, Busy
    <3>3. Failed => Failed'
      BY <2>2 DEF Failed, Busy
    <3> QED BY <1>2, <2>1, <2>2, <2>5, <3>1, <3>2, <3>3
            DEF LoopInv, QuietInv, SendInv, ReceiveInv, Quiet, BeforeStart
  <2> QED BY <2>1, <2>4, <2>5
<1>6. CASE c = "S2MM"
  <2>1. pc \in {"wait_mm2s", "wait_s2mm"} /\ ~ioc["S2MM"]
    BY <1>1, <1>6, WhenBusy
  <2>2. halted'["MM2S"] = halted["MM2S"] /\ left'["MM2S"] = left["MM2S"]
    BY <1>2, <1>3, <1>6, ChannelsAre
  <2>3. Failed'
    BY <1>2, <1>3, <1>6, ChannelsAre DEF Failed, Busy
  <2> QED BY <1>2, <2>1, <2>2, <2>3
          DEF LoopInv, QuietInv, SendInv, ReceiveInv, Quiet, BeforeStart, Busy
<1> QED BY <1>5, <1>6 DEF Channels

LEMMA LoopStep == TypeOK /\ LoopInv /\ [Next]_vars => LoopInv'
BY SetUpLoop, ClearLoop, StartMM2SLoop, StartS2MMLoop, WaitLoop, CompareLoop, RestLoop,
   SignalLoop, MM2SLoop, S2MMLoop, ErrorLoop DEF Next, Program

(* Whatever words the loop corrupts, when a channel fails and when the      *)
(* signal comes: ber_num is the number of corrupted words when a frame has  *)
(* been compared (168-202), also where the two packets differ in size.      *)
THEOREM CountsEveryError == Spec => []ErrorsAreReal
<1>1. Init => TypeOK /\ LoopInv
  BY InitType, LoopInit
<1>2. (TypeOK /\ LoopInv) /\ [Next]_vars => (TypeOK /\ LoopInv)'
  BY StepType, LoopStep
<1>3. TypeOK /\ LoopInv => ErrorsAreReal
  BY DEF ErrorsAreReal, LoopInv, QuietInv, Quiet
<1> QED BY <1>1, <1>2, <1>3, PTL DEF Spec
-----------------------------------------------------------------------------
(* No frame gets stuck.  While both channels run, the words that have not    *)
(* come back are in the loop or still to be sent, and at least one is.       *)

Runs == ~halted["MM2S"] /\ ~halted["S2MM"]
OnTheWay(n) == n < TX_WORDS /\ n + Len(fifo) + left["MM2S"] = TX_WORDS

ServedInv ==
  /\ pc \in {"start_s2mm", "wait_mm2s"} /\ Runs => ioc["MM2S"] \/ Busy("MM2S")
  /\ pc = "start_s2mm" /\ Runs => OnTheWay(0)
  /\ pc \in {"wait_mm2s", "wait_s2mm"} /\ Runs /\ ~ioc["S2MM"] =>
       OnTheWay(RX_WORDS - left["S2MM"])

LEMMA ChannelTypes ==
  TypeOK => /\ left \in [Channels -> Nat] /\ ioc \in [Channels -> BOOLEAN]
            /\ halted \in [Channels -> BOOLEAN]
            /\ left["MM2S"] \in Nat /\ left["S2MM"] \in Nat
            /\ fifo \in Seq([word : Nat, last : BOOLEAN]) /\ Len(fifo) \in Nat
BY ChannelsAre DEF TypeOK, EngineTypeOK

LEMMA ServedStart ==
  ASSUME TypeOK, LoopInv, ServedInv, StartMM2S \/ StartS2MM
  PROVE  ServedInv'
<1> USE ChannelsAre, ChannelTypes, DmaAssumption
<1>1. CASE StartMM2S
  <2>1. /\ pc = "start_mm2s" /\ pc' = "start_s2mm" /\ UNCHANGED <<fifo, halted, ioc>>
        /\ left' = [left EXCEPT !["MM2S"] = IF halted["MM2S"] THEN 0 ELSE TX_WORDS]
    BY <1>1 DEF StartMM2S, Goto, SetTransferingBufferSize
  <2>2. fifo = <<>> /\ ~halted["MM2S"]
    BY <2>1 DEF LoopInv, QuietInv, Quiet, BeforeStart
  <2>3. left'["MM2S"] = TX_WORDS /\ Len(fifo') = 0
    BY <2>1, <2>2
  <2> QED BY <2>1, <2>3 DEF ServedInv, OnTheWay, Busy
<1>2. CASE StartS2MM
  <2>1. /\ pc = "start_s2mm" /\ pc' = "wait_mm2s" /\ UNCHANGED <<fifo, halted, ioc>>
        /\ left' = [left EXCEPT !["S2MM"] = IF halted["S2MM"] THEN 0 ELSE RX_WORDS]
    BY <1>2 DEF StartS2MM, Goto, SetTransferingBufferSize
  <2>2. left'["MM2S"] = left["MM2S"] /\ (~halted["S2MM"] => RX_WORDS - left'["S2MM"] = 0)
    BY <2>1
  <2> QED BY <2>1, <2>2 DEF ServedInv, OnTheWay, Busy, Runs
<1> QED BY <1>1, <1>2

LEMMA ServedProgram ==
  ASSUME TypeOK, LoopInv, ServedInv, Program \/ SIGALRM \/ SpeedCalculate \/ UNCHANGED vars
  PROVE  ServedInv'
<1>1. CASE Map \/ SetUp \/ FillAndSetAlarm \/ ClearS2MM \/ ClearMM2S
  BY <1>1 DEF Map, SetUp, FillAndSetAlarm, ClearS2MM, ClearMM2S, Goto, ServedInv
<1>2. CASE StartMM2S \/ StartS2MM
  BY <1>2, ServedStart
<1>3. CASE IsMM2SIOC
  BY <1>3 DEF IsMM2SIOC, Goto, regs, ServedInv, OnTheWay, Runs
<1>4. CASE IsS2MMIOC \/ Compare \/ Flush \/ Load \/ Store
  BY <1>4 DEF IsS2MMIOC, Compare, Flush, Load, Store, Goto, ServedInv
<1>5. CASE SIGALRM \/ SpeedCalculate \/ UNCHANGED vars
  BY <1>5 DEF SIGALRM, SpeedCalculate, vars, regs, ServedInv, OnTheWay, Runs, Busy
<1> QED BY <1>1, <1>2, <1>3, <1>4, <1>5 DEF Program

LEMMA ServedOut ==
  ASSUME TypeOK, LoopInv, ServedInv, MM2SWord
  PROVE  ServedInv'
<1> USE ChannelsAre, ChannelTypes
<1>1. /\ UNCHANGED <<pc, halted>> /\ left["MM2S"] > 0
      /\ left' = [left EXCEPT !["MM2S"] = @ - 1]
      /\ ioc' = [ioc EXCEPT !["MM2S"] = @ \/ MM2SEnds]
  BY DEF MM2SWord, MM2SMoves, Busy
<1>2. Len(fifo') = Len(fifo) + 1
  <2>1. fifo' = Append(fifo, [word |-> MM2SWordOut, last |-> MM2SEnds])
    BY DEF MM2SWord
  <2> QED BY <2>1
<1>3. left'["MM2S"] = left["MM2S"] - 1 /\ left'["S2MM"] = left["S2MM"]
  BY <1>1
<1>4. ioc'["S2MM"] = ioc["S2MM"] /\ ioc'["MM2S"] = (ioc["MM2S"] \/ MM2SEnds)
  BY <1>1, Zenon
<1>5. MM2SEnds \/ left'["MM2S"] > 0
  BY <1>1, <1>3 DEF MM2SEnds
<1>6. ASSUME NEW n \in Int, OnTheWay(n) PROVE OnTheWay(n)'
  BY <1>1, <1>2, <1>3, <1>6 DEF OnTheWay
<1>7. RX_WORDS - left["S2MM"] \in Int
  BY DmaAssumption
<1>8. OnTheWay(RX_WORDS - left["S2MM"]) => OnTheWay(RX_WORDS - left["S2MM"])'
  BY <1>3, <1>6, <1>7 DEF OnTheWay
<1>9. OnTheWay(0) => OnTheWay(0)'
  BY <1>6
<1> QED BY <1>1, <1>4, <1>5, <1>8, <1>9 DEF ServedInv, Runs, Busy

LEMMA ServedBack ==
  ASSUME TypeOK, LoopInv, ServedInv, S2MMWord
  PROVE  ServedInv'
<1> USE ChannelsAre, ChannelTypes
<1>1. /\ pc \in {"wait_mm2s", "wait_s2mm"} /\ ~ioc["S2MM"] /\ Receiving
  BY WhenBusy DEF S2MMWord, S2MMMoves
<1> DEFINE last == Head(fifo).last
<1>2. /\ UNCHANGED <<pc, halted>> /\ fifo # <<>> /\ fifo' = Tail(fifo)
      /\ left["S2MM"] > 0
      /\ left' = [left EXCEPT !["S2MM"] = IF last THEN 0 ELSE @ - 1]
      /\ ioc' = [ioc EXCEPT !["S2MM"] = @ \/ last]
  BY DEF S2MMWord, S2MMMoves, Busy
<1>3. left'["MM2S"] = left["MM2S"]
  BY <1>2
<1>4. ioc'["MM2S"] = ioc["MM2S"] /\ ioc'["S2MM"] = (ioc["S2MM"] \/ last)
  BY <1>2, Zenon
<1>5. ASSUME ~last, OnTheWay(RX_WORDS - left["S2MM"])
      PROVE  OnTheWay(RX_WORDS - left["S2MM"])'
  <2>1. PICK n \in Int : n = RX_WORDS - left["S2MM"]
    BY DmaAssumption
  <2>2. left'["S2MM"] = left["S2MM"] - 1 /\ RX_WORDS - left'["S2MM"] = n + 1
    BY <1>2, <1>5, <2>1, DmaAssumption
  <2>3. Len(fifo) > 0 /\ Len(fifo') = Len(fifo) - 1
    BY <1>2
  <2>4. n + 1 # TX_WORDS
    <3>1. 1 \in 1 .. Len(fifo) /\ Head(fifo) = fifo[1]
      BY <1>2, <2>3
    <3>2. fifo[1].last = (n + 1 = TX_WORDS)
      BY <1>1, <2>1, <3>1 DEF Receiving, Carries
    <3> QED BY <1>5, <3>1, <3>2
  <2>5. n < TX_WORDS /\ n + Len(fifo) + left["MM2S"] = TX_WORDS
    BY <1>5, <2>1 DEF OnTheWay
  <2> QED BY <1>3, <2>2, <2>3, <2>4, <2>5, DmaAssumption DEF OnTheWay
<1> HIDE DEF last
<1> QED BY <1>1, <1>2, <1>3, <1>4, <1>5 DEF ServedInv, Runs, Busy

LEMMA ServedError ==
  ASSUME TypeOK, LoopInv, ServedInv, DmaError
  PROVE  ServedInv'
<1>1. PICK c \in Channels : halted' = [halted EXCEPT ![c] = TRUE]
  BY DEF DmaError, Fault
<1>2. ~Runs'
  BY <1>1, ChannelTypes DEF Runs, Channels
<1> QED BY <1>2 DEF ServedInv

LEMMA ServedStep == TypeOK /\ LoopInv /\ ServedInv /\ [Next]_vars => ServedInv'
BY ServedProgram, ServedOut, ServedBack, ServedError DEF Next

(* Where the loop may move a word, or the bit waited for is set. *)
LEMMA ServedHolds ==
  ASSUME TX_WORDS <= RX_WORDS, TypeOK, LoopInv, ServedInv
  PROVE  FrameIsServed
<1> USE ChannelsAre, ChannelTypes
<1> SUFFICES ASSUME pc \in {"wait_mm2s", "wait_s2mm"}, Runs
             PROVE  \/ pc = "wait_mm2s" /\ ioc["MM2S"]
                    \/ pc = "wait_s2mm" /\ ioc["S2MM"]
                    \/ Busy("MM2S") /\ Len(fifo) < FifoDepth
                    \/ Busy("S2MM") /\ fifo # <<>> /\ (Head(fifo).last \/ left["S2MM"] > 1)
  BY DEF FrameIsServed, Runs
<1>1. CASE ioc["S2MM"]
  BY <1>1 DEF LoopInv, ReceiveInv, Complete, ServedInv
<1>2. CASE ~ioc["S2MM"]
  <2>1. Receiving
    BY <1>2 DEF LoopInv, ReceiveInv, Failed, Runs
  <2>2. PICK n \in Int : n = RX_WORDS - left["S2MM"]
    BY DmaAssumption
  <2>3. n < TX_WORDS /\ n + Len(fifo) + left["MM2S"] = TX_WORDS
    BY <1>2, <2>2 DEF ServedInv, OnTheWay
  <2>4. CASE fifo = <<>>
    <3>1. Len(fifo) = 0
      BY <2>4
    <3>2. Busy("MM2S")
      BY <2>3, <3>1, DmaAssumption DEF Busy
    <3> QED BY <3>1, <3>2, LoopbackAssumption
  <2>5. CASE fifo # <<>>
    <3>1. Head(fifo) = fifo[1] /\ Len(fifo) > 0 /\ 1 \in 1 .. Len(fifo)
      BY <2>5
    <3>2. fifo[1].last = (n + 1 = TX_WORDS)
      BY <2>1, <2>2, <3>1 DEF Receiving, Carries
    <3>3. Busy("S2MM") /\ left["S2MM"] > 0
      BY <2>1 DEF Receiving, Busy
    <3>4. n + 1 = TX_WORDS \/ left["S2MM"] > 1
      BY <2>2, <2>3, <3>3, DmaAssumption
    <3> QED BY <2>5, <3>1, <3>2, <3>3, <3>4
  <2> QED BY <2>4, <2>5
<1> QED BY <1>1, <1>2

(* Whatever the loop's depth, down to a single word, and wherever the       *)
(* signal comes, no frame gets stuck between the two waits (178, 182) while *)
(* both channels run.  A packet must fit the receive buffer: the code's     *)
(* two sizes are the same (dma_init.h).                                     *)
THEOREM NoFrameSticks ==
  ASSUME TX_WORDS <= RX_WORDS
  PROVE  Spec => []FrameIsServed
<1>1. Init => TypeOK /\ LoopInv /\ ServedInv
  BY InitType, LoopInit DEF Init, ServedInv
<1>2. (TypeOK /\ LoopInv /\ ServedInv) /\ [Next]_vars => (TypeOK /\ LoopInv /\ ServedInv)'
  BY StepType, LoopStep, ServedStep
<1>3. TypeOK /\ LoopInv /\ ServedInv => FrameIsServed
  BY ServedHolds
<1> QED BY <1>1, <1>2, <1>3, PTL DEF Spec
=============================================================================
