--------------------------- MODULE SpeedTest_proofs ---------------------------
(***************************************************************************)
(* speedTest for every table of block numbers, every size of block and     *)
(* buffer, killed and started again at any moment: its types, the command  *)
(* register's number as long as the FPGA needs it, and the answer to its   *)
(* own words.                                                              *)
(*                                                                         *)
(* The proofs about AxiDma hold of the transfer functions here too (DP);   *)
(* what is new is the FPGA's protocol, and what a killed program leaves in *)
(* the FPGA for the next one.                                              *)
(***************************************************************************)
EXTENDS SpeedTest, ControlRegister_proofs, SequenceTheorems, TLAPS

DP == INSTANCE AxiDma_proofs WITH MaxItems <- 0

-----------------------------------------------------------------------------
(* The inductive invariant. *)

SendSteps == {"fill", "tx_clear", "tx_length", "tx_wait"}
PulseSteps == {"pulse"} \union DP!RecvSteps

TestTypeOK ==
  /\ at \in {"reset", "announce", "instruct", "look", "poll", "got", "done"}
  /\ testnum \in DOMAIN speed_table
  /\ command \in 0 .. 2 * INSTRUCT - 1 \/ command \in {READ, RESET}
  /\ up \in BOOLEAN /\ rd_ready \in BOOLEAN /\ stored \in Seq(Nat)

(* Where the program is in a transfer function and where in speedTest. *)
Places ==
  /\ pc # "reset"
  /\ pc \in {"map", "init"} => at = "reset"
  /\ pc \in SendSteps => op = "dma_transmit_32"
  /\ pc \in PulseSteps => op = "dma_recv_32" /\ at \in {"poll", "got"}
  /\ op = "dma_transmit_32" => at = "poll" /\ words = Data(datablock)
  /\ at = "got" => op = "dma_recv_32"
  /\ op # "dma_tramsmit"

(* No transfer goes beyond the transmit buffer. *)
Fits == Len(words) <= TX_WORDS /\ length["MM2S"] <= TX_WORDS

Numbered ==
  /\ at = "instruct" => asked = datablock
  /\ at = "look" => Announces(datablock)

(* What a program, killed or not, can leave behind. *)
LeftOver ==
  /\ fpgaOut # <<>> => stored = <<>> /\ ~rd_ready
  /\ left["MM2S"] > 0 => DP!Idle /\ (at = "reset" \/ pc = "tx_wait")

(* The FPGA after its reset, until it is sent to or asked. *)
Empty == stored = <<>> /\ ~rd_ready /\ fpgaOut = <<>>
Clean == up /\ at \in {"announce", "instruct", "look"} => Empty /\ ~pulsed

(* The words are on their way to the FPGA, or there. *)
Sent ==
  /\ up /\ DP!Idle /\ Announces(datablock)
  /\ DP!LoadInv
  /\ DP!Prefixed(stored, words)
  /\ pc \in {"fill", "tx_clear", "tx_length"} => stored = <<>>
  /\ pc = "tx_wait" /\ left["MM2S"] > 0 => Len(stored) + left["MM2S"] = Len(words)
  /\ pc = "tx_wait" /\ ioc["MM2S"] => stored = words
  /\ pc \notin SendSteps => stored = words
  /\ rd_ready => stored = words

(* The single look came before the reset was carried out: nothing was sent  *)
(* and no answer comes.                                                     *)
Starved ==
  /\ up => Empty
  /\ pc \in PulseSteps => fpgaOut = <<>>
  /\ pc # "rx_copy" /\ (pc = "rx_wait" => ~ioc["S2MM"])
  /\ at = "got" => pc # "caller"

(* The answer to this test's words is asked for, and comes. *)
Asked    == rd_ready /\ stored = Data(datablock) /\ fpgaOut = <<>>
            /\ pc # "caller" /\ (pc \in DP!RecvSteps => pulsed)
Answered == packet = Answer(Data(datablock)) /\ stored = <<>> /\ ~rd_ready /\ ~pulsed
            /\ pc # "pulse"
Fetching == up /\ at = "got" /\ (pc # "dead" => DP!OwnPacket) /\ (Asked \/ Answered)

Protocol ==
  /\ Clean
  /\ at \in {"poll", "got"} =>
       IF op = "dma_transmit_32" THEN Sent ELSE Starved \/ Fetching

Inv ==
  /\ DP!Inv /\ DP!TxServed /\ TestTypeOK /\ RegInv
  /\ Places /\ Fits /\ Numbered /\ LeftOver /\ Protocol

-----------------------------------------------------------------------------
(* What holds of AxiDma here. *)

LEMMA Here == DP!DmaAssumption /\ DP!RelayAssumption
BY SpeedAssumption DEF DP!DmaAssumption, DP!RelayAssumption

LEMMA TypeHere == D!TypeOK <=> DP!TypeOK
BY DEF D!TypeOK, DP!TypeOK, D!EngineTypeOK, DP!EngineTypeOK, D!Channels, DP!Channels,
   D!Steps, DP!Steps, D!SettingUp, DP!SettingUp

LEMMA InitHere == D!Init => DP!Init
BY DEF D!Init, DP!Init, D!EngineInit, DP!EngineInit, D!Zeros, DP!Zeros, D!Channels, DP!Channels

LEMMA SetUpHere ==
  /\ D!Map <=> DP!Map
  /\ D!Dies <=> DP!Dies
  /\ D!MapFails <=> DP!MapFails
  /\ D!FillOverruns <=> DP!FillOverruns
  /\ D!SetUp <=> DP!SetUp
  /\ D!Restart <=> DP!Restart
BY DEF D!Map, DP!Map, D!MemoryMap, DP!MemoryMap, D!Zeros, DP!Zeros, D!Channels, DP!Channels,
   D!Dies, DP!Dies, D!MapFails, DP!MapFails, D!FillOverruns, DP!FillOverruns, D!SetUp, DP!SetUp,
   D!InitialAXIDMA, DP!InitialAXIDMA, D!Restart, DP!Restart, D!mem, DP!mem, D!regs, DP!regs,
   D!fpga, DP!fpga

LEMMA SendHere ==
  /\ D!Reset <=> DP!Reset
  /\ D!Fill <=> DP!Fill
  /\ D!TxClear <=> DP!TxClear
  /\ D!TxLength <=> DP!TxLength
  /\ D!IsMM2SIOC <=> DP!IsMM2SIOC
BY DEF D!Reset, DP!Reset, D!ResetAXIDMA, DP!ResetAXIDMA, D!Channels, DP!Channels,
   D!Fill, DP!Fill, D!TxClear, DP!TxClear, D!ClearAXIDMAInterrupt, DP!ClearAXIDMAInterrupt,
   D!TxLength, DP!TxLength, D!SetTransferingBufferSize, DP!SetTransferingBufferSize,
   D!IsMM2SIOC, DP!IsMM2SIOC, D!Held, DP!Held, D!Behind, DP!Behind, D!Goto, DP!Goto, D!mem,
   DP!mem, D!regs, DP!regs, D!fpga, DP!fpga

LEMMA RecvHere ==
  /\ D!StartReadPulse <=> DP!StartReadPulse
  /\ D!RxMemset <=> DP!RxMemset
  /\ D!RxClear <=> DP!RxClear
  /\ D!RxLength <=> DP!RxLength
  /\ D!IsS2MMIOC <=> DP!IsS2MMIOC
  /\ D!RxCopy <=> DP!RxCopy
BY DEF D!StartReadPulse, DP!StartReadPulse, D!RxMemset, DP!RxMemset, D!Zeros, DP!Zeros,
   D!RxClear, DP!RxClear, D!ClearAXIDMAInterrupt, DP!ClearAXIDMAInterrupt,
   D!RxLength, DP!RxLength, D!SetTransferingBufferSize, DP!SetTransferingBufferSize,
   D!IsS2MMIOC, DP!IsS2MMIOC, D!RxCopy, DP!RxCopy, D!Goto, DP!Goto, D!mem, DP!mem,
   D!regs, DP!regs, D!fpga, DP!fpga

LEMMA ServeHere == D!Serve <=> DP!Serve
BY SetUpHere, SendHere, RecvHere DEF D!Serve, DP!Serve

LEMMA StreamHere ==
  /\ D!MM2SWord <=> DP!MM2SWord
  /\ D!S2MMWord <=> DP!S2MMWord
  /\ D!DmaError <=> DP!DmaError
BY DEF D!MM2SWord, DP!MM2SWord, D!MM2SMoves, DP!MM2SMoves, D!MM2SWordOut, DP!MM2SWordOut,
   D!Behind, DP!Behind, D!MM2SEnds, DP!MM2SEnds, D!At, DP!At, D!Busy, DP!Busy, D!S2MMWord,
   DP!S2MMWord, D!S2MMMoves, DP!S2MMMoves, D!DmaError, DP!DmaError, D!Fault, DP!Fault,
   D!Channels, DP!Channels, D!mem, DP!mem, D!cpu, DP!cpu, D!fpga, DP!fpga
-----------------------------------------------------------------------------
(* Types, and no buffer written under a transfer: AxiDma's, with the calls   *)
(* that speedTest makes and this FPGA's answers.                             *)

LEMMA TableFacts ==
  /\ testnum \in DOMAIN speed_table => /\ datablock \in Nat \ {0}
                                       /\ datablock < INSTRUCT
                                       /\ datablock * WORDS_PER_BLOCK \in Nat
                                       /\ datablock * WORDS_PER_BLOCK <= TX_WORDS
  /\ 1 \in DOMAIN speed_table
BY SpeedAssumption DEF datablock

LEMMA DataType ==
  ASSUME Inv
  PROVE  /\ Data(datablock) \in Seq(Nat)
         /\ Len(Data(datablock)) = datablock * WORDS_PER_BLOCK
         /\ Len(Data(datablock)) <= TX_WORDS
<1> DEFINE n == datablock * WORDS_PER_BLOCK
<1>1. n \in Nat /\ n <= TX_WORDS
  BY TableFacts DEF Inv, TestTypeOK
<1>2. restarts \in Nat
  BY SpeedAssumption DEF Inv, DP!Inv, DP!TypeOK
<1> HIDE DEF n
<1>3. Data(datablock) = [i \in 1 .. n |-> 100 * restarts + i]
  BY DEF Data, n
<1>4. \A i \in 1 .. n : 100 * restarts + i \in Nat
  BY <1>1, <1>2
<1>5. /\ [i \in 1 .. n |-> 100 * restarts + i] \in Seq(Nat)
      /\ Len([i \in 1 .. n |-> 100 * restarts + i]) = n
  BY <1>1, <1>4
<1> QED BY <1>1, <1>3, <1>5 DEF n

LEMMA AnswerType ==
  ASSUME NEW ws \in Seq(Nat)
  PROVE  /\ Answer(ws) \in Seq(Nat) /\ Len(Answer(ws)) = Len(ws)
<1>1. Len(ws) \in Nat /\ DOMAIN ws = 1 .. Len(ws) /\ \A i \in 1 .. Len(ws) : ws[i] \in Nat
  OBVIOUS
<1>2. \A i \in 1 .. Len(ws) : 1000 + ws[i] \in Nat
  BY <1>1
<1> QED BY <1>1, <1>2 DEF Answer

(* A call of speedTest. *)
LEMMA CallKeeps ==
  ASSUME DP!Inv, NEW f, NEW first, NEW ws \in Seq(Nat),
         first \in {"fill", "pulse"}, f # "dma_tramsmit", D!Call(f, first, ws)
  PROVE  DP!Inv'
<1>1. DP!TypeOK /\ DP!RaceInv
  BY DEF DP!Inv
<1>2. /\ pc = "caller" /\ calls < MaxCalls
      /\ op' = f /\ words' = ws /\ calls' = calls + 1 /\ pc' = first
      /\ UNCHANGED <<recvd, restarts, sent, DP!mem, DP!regs, DP!fpga>>
  BY DEF D!Call, D!mem, D!regs, D!fpga, DP!mem, DP!regs, DP!fpga
<1>3. DP!EngineTypeOK /\ DP!CpuTypeOK /\ DP!FpgaTypeOK
  BY <1>1, DP!TypeParts, Here
<1>4. DP!EngineTypeOK' /\ DP!FpgaTypeOK'
  BY <1>2, <1>3, DP!EngineSame, DP!SameType, Here
<1>5. DP!CpuTypeOK'
  BY <1>2, <1>3, SpeedAssumption DEF DP!CpuTypeOK, DP!Steps
<1>6. DP!RaceInv'
  BY <1>1, <1>2 DEF DP!RaceInv, DP!SettingUp, DP!regs
<1> QED BY <1>4, <1>5, <1>6, DP!PartsNext, Here DEF DP!Inv

(* A step of the FPGA alone. *)
LEMMA FpgaKeeps ==
  ASSUME DP!Inv, UNCHANGED <<cpu, DP!mem, DP!regs, fpgaIn>>,
         fpgaOut' \in Seq(Nat), packet' \in Seq(Nat)
  PROVE  DP!Inv'
<1>1. DP!TypeOK /\ DP!RaceInv
  BY DEF DP!Inv
<1>2. DP!EngineTypeOK /\ DP!CpuTypeOK /\ DP!FpgaTypeOK
  BY <1>1, DP!TypeParts, Here
<1>3. DP!EngineTypeOK' /\ DP!CpuTypeOK' /\ DP!FpgaTypeOK'
  BY <1>2, DP!EngineSame, Here DEF DP!CpuTypeOK, DP!FpgaTypeOK, cpu
<1>4. DP!RaceInv'
  BY <1>1 DEF DP!RaceInv, DP!regs, cpu
<1> QED BY <1>3, <1>4, DP!PartsNext, Here DEF DP!Inv

(* The first and the last write of a read pulse. *)
PulseEdge == PulseBegins \/ PulseEnds

LEMMA PulseEdgeIs ==
  PulseEdge => /\ UNCHANGED <<dma, test, fpga, w_vars>> /\ command' = 0
               /\ pc \in {"pulse", "rx_memset"}
BY DEF PulseEdge, PulseBegins, PulseEnds, Pulsing, PulseLow, set_Reg

LEMMA DmaStep ==
  ASSUME Inv, Next
  PROVE  DP!Inv'
<1>0. /\ DP!Inv /\ DP!TypeOK /\ DP!RaceInv
      /\ testnum \in DOMAIN speed_table /\ stored \in Seq(Nat)
  BY DEF Inv, DP!Inv, TestTypeOK
<1>1. CASE UNCHANGED dma
  <2>1. /\ UNCHANGED <<cpu, DP!mem, DP!regs, fpgaIn>> /\ fpgaOut' = fpgaOut /\ packet' = packet
    BY <1>1 DEF dma, DP!mem, DP!regs
  <2>2. fpgaOut \in Seq(Nat) /\ packet \in Seq(Nat)
    BY <1>0, DP!TypeParts, Here DEF DP!FpgaTypeOK
  <2> QED BY <1>0, <2>1, <2>2, FpgaKeeps
<1>2. CASE ResetFpga \/ Announce \/ CopyBit \/ WriteInstruct \/ NextTest \/ FpgaProcess
           \/ PulseEdge
  BY <1>1, <1>2, PulseEdgeIs
  DEF ResetFpga, Announce, CopyBit, WriteInstruct, NextTest, FpgaProcess
<1>3. CASE Look \/ Poll
  <2>1. \/ D!Call("dma_transmit_32", "fill", Data(datablock))
        \/ D!Call("dma_recv_32", "pulse", <<>>)
        \/ UNCHANGED dma
    BY <1>3 DEF Look, Poll
  <2>2. <<>> \in Seq(Nat)
    OBVIOUS
  <2> QED BY <1>0, <1>1, <2>1, <2>2, CallKeeps, DataType
<1>4. CASE ReadPulse \/ Transfer \/ Restart
  <2>1. DP!StartReadPulse \/ DP!Serve \/ DP!Restart
    BY <1>4, RecvHere, ServeHere, SetUpHere DEF ReadPulse, Transfer, Restart
  <2>2. DP!TypeOK'
    BY <1>0, <2>1, DP!SetUpType, DP!SendType, DP!RecvType, Here
       DEF DP!Serve, DP!MapFails, DP!FillOverruns
  <2>3. DP!RaceInv'
    BY <1>0, <2>1, DP!RaceCpu, Here
  <2> QED BY <2>2, <2>3 DEF DP!Inv
<1>5. CASE Killed
  <2>1. DP!Dies
    BY <1>5, SetUpHere DEF Killed
  <2>2. DP!TypeOK'
    BY <1>0, <2>1, DP!SetUpType, Here
  <2>3. DP!RaceInv'
    BY <1>0, <2>1 DEF DP!Dies, DP!RaceInv, DP!SettingUp, DP!regs
  <2> QED BY <2>2, <2>3 DEF DP!Inv
<1>6. CASE FpgaReset \/ FpgaAnswer
  <2>1. UNCHANGED <<cpu, DP!mem, DP!regs, fpgaIn>>
    BY <1>6 DEF FpgaReset, FpgaAnswer, DP!mem, DP!regs
  <2>2. fpgaOut' \in Seq(Nat) /\ packet' \in Seq(Nat)
    <3>1. packet \in Seq(Nat) /\ <<>> \in Seq(Nat) /\ Answer(stored) \in Seq(Nat)
      BY <1>0, DP!TypeParts, AnswerType, Here DEF DP!FpgaTypeOK
    <3> QED BY <1>6, <3>1 DEF FpgaReset, FpgaAnswer
  <2> QED BY <1>0, <2>1, <2>2, FpgaKeeps
<1>7. CASE FpgaTakes \/ FpgaSends \/ DmaError
  <2>1. DP!MM2SWord \/ DP!S2MMWord \/ DP!DmaError
    BY <1>7, StreamHere DEF FpgaTakes, FpgaSends, DmaError
  <2> QED BY <1>0, <2>1, DP!StreamType, DP!RaceStream, Here DEF DP!Inv
<1> QED BY <1>2, <1>3, <1>4, <1>5, <1>6, <1>7 DEF Next, Program, PulseEdge
-----------------------------------------------------------------------------
(* The register, and where the program is. *)

LEMMA TestTypeStep ==
  ASSUME Inv, Next
  PROVE  TestTypeOK'
<1>0. /\ TestTypeOK /\ RegInv /\ DP!EngineTypeOK /\ packet \in Seq(Nat)
      /\ INSTRUCT \in Nat \ {0} /\ testnum \in DOMAIN speed_table
  BY DP!TypeParts, Here, InstructValues DEF Inv, DP!Inv, TestTypeOK, DP!FpgaTypeOK
<1>1. at' \in {"reset", "announce", "instruct", "look", "poll", "got", "done"}
  BY <1>0, PulseEdgeIs
  DEF TestTypeOK, Next, Program, PulseEdge, ResetFpga, Announce, CopyBit, WriteInstruct, Look,
     Poll, NextTest, Step, ReadPulse, Transfer, Killed, Restart, FpgaReset, FpgaTakes, FpgaProcess,
     FpgaAnswer, FpgaSends, DmaError, test
<1>2. testnum' \in DOMAIN speed_table
  <2>1. CASE NextTest
    BY <1>0, <2>1, SpeedAssumption DEF NextTest
  <2>2. CASE Restart
    BY <2>2, TableFacts DEF Restart
  <2>3. CASE ~NextTest /\ ~Restart
    BY <1>0, <2>3, PulseEdgeIs
    DEF Next, Program, PulseEdge, ResetFpga, Announce, CopyBit, WriteInstruct, Look, Poll, Step,
       ReadPulse, Transfer, Killed, FpgaReset, FpgaTakes, FpgaProcess,
       FpgaAnswer, FpgaSends, DmaError, test
  <2> QED BY <2>1, <2>2, <2>3
<1>3. command' \in 0 .. 2 * INSTRUCT - 1 \/ command' \in {READ, RESET}
  <2>1. CASE WriteInstruct
    <3>1. command' = binary + INSTRUCT /\ binary = asked % INSTRUCT /\ asked \in Nat
      BY <1>0, <2>1, CopiedIsAsked
      DEF WriteInstruct, InstructWrite, set_Reg, RegInv, RegTypeOK
    <3>2. \A n \in Nat : (n % INSTRUCT) + INSTRUCT \in 0 .. 2 * INSTRUCT - 1
      BY InstructValues
    <3> QED BY <3>1, <3>2
  <2>2. CASE ResetFpga
    BY <2>2 DEF ResetFpga, set_Reg
  <2>3. CASE ReadPulse \/ PulseEdge
    BY <1>0, <2>3, PulseEdgeIs DEF ReadPulse, PulseHigh, set_Reg
  <2>4. CASE ~WriteInstruct /\ ~ResetFpga /\ ~ReadPulse /\ ~PulseEdge
    <3>1. command' = command
      BY <2>4 DEF Next, Program, PulseEdge, Announce, w_instruct, CopyBit, InstructBit, Look, Poll,
         NextTest, Transfer, Killed, Restart, FpgaReset, FpgaTakes, FpgaProcess,
         FpgaAnswer, FpgaSends, DmaError, register
    <3> QED BY <1>0, <3>1 DEF TestTypeOK
  <2> QED BY <2>1, <2>2, <2>3, <2>4
<1>4. up' \in BOOLEAN /\ rd_ready' \in BOOLEAN
  BY <1>0, PulseEdgeIs
  DEF TestTypeOK, Next, Program, PulseEdge, ResetFpga, Announce, CopyBit, WriteInstruct, Look, Poll,
     NextTest, ReadPulse, Transfer, Killed, Restart, FpgaReset, FpgaTakes, FpgaProcess,
     FpgaAnswer, FpgaSends, DmaError, fpga
<1>5. stored' \in Seq(Nat)
  <2>1. CASE FpgaTakes
    <3>1. stored' = Append(stored, DP!MM2SWordOut) /\ DP!MM2SMoves
      BY <2>1, StreamHere DEF FpgaTakes, D!MM2SWordOut, DP!MM2SWordOut,
         D!At, DP!At, D!Behind, DP!Behind, DP!MM2SWord
    <3>2. DP!MM2SWordOut \in Nat
      BY <1>0, <3>1, DP!MM2SType, Here
    <3> QED BY <1>0, <3>1, <3>2 DEF TestTypeOK
  <2>2. CASE ~FpgaTakes
    <3>1. stored' = stored \/ stored' = <<>>
      BY <2>2, PulseEdgeIs
      DEF Next, Program, PulseEdge, ResetFpga, Announce, CopyBit, WriteInstruct, Look, Poll,
         NextTest, ReadPulse, Transfer, Killed, Restart, FpgaReset, FpgaProcess,
         FpgaAnswer, FpgaSends, DmaError, fpga
    <3>2. <<>> \in Seq(Nat)
      OBVIOUS
    <3> QED BY <1>0, <3>1, <3>2 DEF TestTypeOK
  <2> QED BY <2>1, <2>2
<1> QED BY <1>1, <1>2, <1>3, <1>4, <1>5 DEF TestTypeOK, INSTRUCT, READ, RESET, Two

LEMMA RegisterStep ==
  ASSUME Inv, Next
  PROVE  RegInv'
<1>0. RegInv /\ datablock \in Nat
  BY TableFacts DEF Inv, TestTypeOK
<1>1. CASE Announce
  BY <1>0, <1>1, StartKeeps DEF Announce
<1>2. CASE CopyBit
  BY <1>0, <1>2, BitKeeps DEF CopyBit
<1>3. CASE Restart
  BY <1>3, BitsAssumption, TwoValues DEF Restart, RegInv, RegTypeOK, BitsAddUp
<1>4. CASE ~Announce /\ ~CopyBit /\ ~Restart
  <2>1. UNCHANGED w_vars
    BY <1>4, PulseEdgeIs
    DEF Next, Program, PulseEdge, ResetFpga, WriteInstruct, InstructWrite, Look, Poll,
       NextTest, ReadPulse, PulseHigh, Transfer, Killed, FpgaReset, FpgaTakes, FpgaProcess,
       FpgaAnswer, FpgaSends, DmaError, register
  <2> QED BY <1>0, <2>1, SameKeeps
<1> QED BY <1>1, <1>2, <1>3, <1>4

(* Steps of the transfer functions leave speedTest, the register and the    *)
(* FPGA alone, and go one step further.                                     *)
LEMMA TransferIs ==
  ASSUME Inv, Transfer
  PROVE  /\ UNCHANGED <<register, at, testnum, up, stored, rd_ready>>
         /\ UNCHANGED <<op, words, restarts, pulsed, fpgaOut, packet>>
         /\ ~D!FillOverruns
         /\ \/ pc = "map" /\ pc' \in {"init", "dead"}
            \/ pc = "init" /\ pc' = "caller"
            \/ pc = "reset"
            \/ pc = "fill" /\ pc' = "tx_clear"
            \/ pc = "tx_clear" /\ pc' = "tx_length"
            \/ pc = "tx_length" /\ op = "dma_tramsmit"
            \/ pc = "tx_length" /\ pc' = "tx_wait"
            \/ pc = "tx_wait" /\ ioc["MM2S"] /\ pc' = "caller" /\ UNCHANGED left
            \/ pc = "rx_memset" /\ pc' = "rx_clear"
            \/ pc = "rx_clear" /\ pc' = "rx_length"
            \/ pc = "rx_length" /\ pc' = "rx_wait"
            \/ pc = "rx_wait" /\ ioc["S2MM"] /\ pc' = "rx_copy"
            \/ pc = "rx_copy" /\ pc' = "caller"
<1>1. UNCHANGED <<register, at, testnum, up, stored, rd_ready>>
  BY DEF Transfer, test, fpga
<1>0. ~D!FillOverruns
  <2>1. Len(words) \in Nat /\ Len(words) <= TX_WORDS /\ TX_WORDS \in Nat
    BY SpeedAssumption DEF Inv, Fits, DP!Inv, DP!TypeOK
  <2> QED BY <2>1 DEF D!FillOverruns
<1>2. CASE D!Map \/ D!MapFails \/ D!SetUp
  BY <1>0, <1>1, <1>2 DEF D!Map, D!MapFails, D!Dies, D!SetUp, D!fpga
<1>3. CASE D!Reset \/ D!Fill \/ D!TxClear
  BY <1>0, <1>1, <1>3 DEF D!Reset, D!Fill, D!TxClear, D!Goto, D!fpga
<1>4. CASE D!TxLength \/ D!IsMM2SIOC
  BY <1>0, <1>1, <1>4 DEF D!TxLength, D!IsMM2SIOC, D!Goto, D!fpga, D!regs
<1>5. CASE D!RxMemset \/ D!RxClear \/ D!RxLength \/ D!IsS2MMIOC \/ D!RxCopy
  BY <1>0, <1>1, <1>5 DEF D!RxMemset, D!RxClear, D!RxLength, D!IsS2MMIOC, D!RxCopy, D!Goto, D!fpga
<1> QED BY <1>0, <1>2, <1>3, <1>4, <1>5 DEF Transfer, D!Serve

(* Engine and FPGA leave program and register alone. *)
Outside == FpgaReset \/ FpgaTakes \/ FpgaProcess \/ FpgaAnswer \/ FpgaSends \/ DmaError

LEMMA OutsideIs ==
  Outside => UNCHANGED <<register, at, testnum, pc, op, words, recvd, restarts>>
BY DEF Outside, FpgaReset, FpgaTakes, FpgaProcess, FpgaAnswer, FpgaSends, DmaError,
   D!MM2SWord, D!S2MMWord, D!DmaError, D!cpu, cpu, dma, test, register

LEMMA SameBlock ==
  ASSUME testnum' = testnum
  PROVE  /\ datablock' = datablock
         /\ command' = command /\ Announces(datablock) => Announces(datablock)'
BY DEF datablock, Announces, INSTRUCT, Two

LEMMA SameData ==
  ASSUME testnum' = testnum, restarts' = restarts
  PROVE  /\ Data(datablock)' = Data(datablock)
         /\ Answer(Data(datablock))' = Answer(Data(datablock))
BY DEF datablock, Data, Answer

LEMMA PlacesStep ==
  ASSUME Inv, Next
  PROVE  Places'
<1> USE DEF Places, SendSteps, PulseSteps, DP!RecvSteps
<1>0. Places
  BY DEF Inv
<1>1. testnum' = testnum /\ restarts' = restarts => Data(datablock)' = Data(datablock)
  BY SameData
<1>2. CASE ResetFpga \/ Announce \/ CopyBit \/ WriteInstruct
  BY <1>0, <1>1, <1>2 DEF ResetFpga, Announce, CopyBit, WriteInstruct, Step, dma, cpu
<1>3. CASE Look
  BY <1>0, <1>1, <1>3 DEF Look, Step, D!Call, dma, cpu
<1>4. CASE Poll
  BY <1>0, <1>1, <1>4 DEF Poll, Step, D!Call
<1>5. CASE NextTest
  BY <1>0, <1>5 DEF NextTest, dma, cpu
<1>6. CASE ReadPulse
  BY <1>0, <1>1, <1>6 DEF ReadPulse, D!StartReadPulse, test
<1>7. CASE Transfer
  BY <1>0, <1>1, <1>7, TransferIs
<1>8. CASE Killed
  BY <1>0, <1>1, <1>8 DEF Killed, D!Dies, test
<1>9. CASE Restart
  BY <1>9 DEF Restart, D!Restart
<1>10. CASE Outside
  BY <1>0, <1>1, <1>10, OutsideIs
<1>11. CASE PulseEdge
  BY <1>0, <1>1, <1>11, PulseEdgeIs DEF dma, cpu, test
<1> QED BY <1>2, <1>3, <1>4, <1>5, <1>6, <1>7, <1>8, <1>9, <1>10, <1>11
  DEF Next, Program, Outside, PulseEdge

(* Only speedTest hands words over, and only these are sent. *)
LEMMA FitsStep ==
  ASSUME Inv, Next
  PROVE  Fits'
<1>0. Fits /\ length \in [{"MM2S", "S2MM"} -> Nat] /\ TX_WORDS \in Nat
  BY DP!RecvTypes, Here, SpeedAssumption DEF Inv, DP!Inv, DP!Channels
<1>1. CASE Look \/ Poll
  <2>1. words' \in {words, Data(datablock), <<>>} /\ length' = length
    BY <1>1 DEF Look, Poll, D!Call, D!regs, dma, cpu
  <2>2. Len(Data(datablock)) <= TX_WORDS /\ Len(<<>>) = 0
    BY DataType
  <2> QED BY <1>0, <2>1, <2>2 DEF Fits
<1>2. CASE Restart
  <2>1. words' = <<>> /\ length' = length /\ Len(<<>>) = 0
    BY <1>2 DEF Restart, D!Restart, D!regs
  <2> QED BY <1>0, <2>1 DEF Fits
<1>3. CASE Transfer
  <2>1. words' = words
    BY <1>3, TransferIs
  <2>2. length'["MM2S"] = length["MM2S"] \/ length'["MM2S"] = Len(words)
    <3>1. CASE D!TxLength
      BY <1>0, <3>1 DEF D!TxLength, D!SetTransferingBufferSize
    <3>2. CASE D!RxLength
      BY <1>0, <3>2 DEF D!RxLength, D!SetTransferingBufferSize
    <3>3. CASE ~D!TxLength /\ ~D!RxLength
      BY <1>3, <3>3 DEF Transfer, D!Serve, D!Map, D!MemoryMap, D!MapFails, D!FillOverruns, D!Dies,
         D!SetUp, D!InitialAXIDMA, D!Reset, D!ResetAXIDMA, D!Fill, D!TxClear, D!IsMM2SIOC,
         D!RxMemset, D!RxClear, D!IsS2MMIOC, D!RxCopy, D!ClearAXIDMAInterrupt, D!regs
    <3> QED BY <3>1, <3>2, <3>3
  <2> QED BY <1>0, <2>1, <2>2 DEF Fits
<1>4. CASE Outside
  <2>1. words' = words
    BY <1>4, OutsideIs
  <2>2. length'["MM2S"] = length["MM2S"]
    <3>1. CASE FpgaSends
      BY <1>0, <3>1 DEF FpgaSends, D!S2MMWord, D!S2MMMoves
    <3>2. CASE ~FpgaSends
      BY <1>4, <3>2 DEF Outside, FpgaReset, FpgaTakes, FpgaProcess, FpgaAnswer, DmaError,
         D!MM2SWord, D!MM2SMoves, D!DmaError, D!Fault, dma
    <3> QED BY <3>1, <3>2
  <2> QED BY <1>0, <2>1, <2>2 DEF Fits
<1>5. CASE ~Look /\ ~Poll /\ ~Restart /\ ~Transfer /\ ~Outside
  <2>1. UNCHANGED <<words, length>>
    BY <1>5, PulseEdgeIs DEF Next, Program, PulseEdge, Outside, ResetFpga, Announce, CopyBit,
       WriteInstruct, NextTest, ReadPulse, Killed, D!StartReadPulse, D!Dies, D!regs, dma, cpu
  <2> QED BY <1>0, <2>1 DEF Fits
<1> QED BY <1>1, <1>2, <1>3, <1>4, <1>5

LEMMA NumberedStep ==
  ASSUME Inv, Next
  PROVE  Numbered'
<1>0. Numbered /\ RegInv /\ Places
  BY DEF Inv
<1>1. CASE Announce
  <2>1. at' = "instruct" /\ asked' = datablock /\ testnum' = testnum
    BY <1>1 DEF Announce, Step, w_instruct
  <2> QED BY <2>1, SameBlock DEF Numbered
<1>2. CASE WriteInstruct
  <2>1. at' = "look" /\ asked' = asked /\ asked = datablock /\ testnum' = testnum
    BY <1>0, <1>2 DEF WriteInstruct, Step, InstructWrite, w_vars, Numbered
  <2>2. Announces(asked)'
    <3>1. asked < INSTRUCT
      BY <2>1, TableFacts DEF Inv, TestTypeOK
    <3> QED BY <1>0, <1>2, <3>1, WriteAnnounces DEF WriteInstruct
  <2>3. Announces(datablock)'
    BY <2>1, <2>2, SameBlock DEF Announces
  <2> QED BY <2>1, <2>3 DEF Numbered
<1>3. CASE CopyBit
  <2>1. at' = "instruct" /\ asked' = datablock /\ testnum' = testnum
    BY <1>0, <1>3 DEF CopyBit, Step, InstructBit, Numbered
  <2> QED BY <2>1, SameBlock DEF Numbered
<1>4. CASE ResetFpga \/ Look \/ Poll \/ NextTest \/ Restart
  BY <1>4 DEF ResetFpga, Look, Poll, NextTest, Restart, Step, Numbered
<1>5. CASE ReadPulse
  <2>1. at' = at /\ at \in {"poll", "got"}
    BY <1>0, <1>5 DEF ReadPulse, D!StartReadPulse, Places, PulseSteps, test
  <2> QED BY <2>1 DEF Numbered
<1>6. CASE PulseEdge
  <2>1. at' = at /\ at \in {"poll", "got"}
    BY <1>0, <1>6, PulseEdgeIs DEF Places, PulseSteps, DP!RecvSteps, test
  <2> QED BY <2>1 DEF Numbered
<1>7. CASE Transfer \/ Killed \/ Outside
  <2>1. UNCHANGED <<command, asked, at, testnum>>
    BY <1>7, TransferIs, OutsideIs DEF Killed, register, w_vars, test
  <2> QED BY <1>0, <2>1, SameBlock DEF Numbered
<1> QED BY <1>1, <1>2, <1>3, <1>4, <1>5, <1>6, <1>7 DEF Next, Program, Outside, PulseEdge

-----------------------------------------------------------------------------
(* What is left over for the next program, and how its reset clears it.      *)

LEMMA RegsHere ==
  ASSUME Inv
  PROVE  /\ left \in [{"MM2S", "S2MM"} -> Nat] /\ fpgaOut \in Seq(Nat)
         /\ ioc \in [{"MM2S", "S2MM"} -> BOOLEAN] /\ halted \in [{"MM2S", "S2MM"} -> BOOLEAN]
         /\ left["MM2S"] \in Nat
         /\ length \in [{"MM2S", "S2MM"} -> Nat]
BY DP!RegTypes, DP!RecvTypes, Here DEF Inv, DP!Inv, DP!Channels

LEMMA LeftOverStep ==
  ASSUME Inv, Next
  PROVE  LeftOver'
<1>0. LeftOver /\ Places /\ DP!RaceInv /\ left["MM2S"] \in Nat
  BY RegsHere DEF Inv, DP!Inv
<1>1. CASE ResetFpga \/ Announce \/ CopyBit \/ WriteInstruct \/ NextTest
  <2>1. /\ pc = "caller" /\ left["MM2S"] = 0
        /\ UNCHANGED <<stored, rd_ready, fpgaOut, left>>
    BY <1>0, <1>1 DEF ResetFpga, Announce, CopyBit, WriteInstruct, NextTest, Step, dma, fpga,
       DP!RaceInv, DP!SettingUp
  <2> QED BY <1>0, <2>1 DEF LeftOver
<1>2. CASE Look \/ Poll
  <2>1. /\ pc = "caller" /\ left["MM2S"] = 0
        /\ UNCHANGED <<stored, rd_ready, fpgaOut, left>>
    BY <1>0, <1>2 DEF Look, Poll, Step, D!Call, D!regs, D!fpga, dma, fpga,
       DP!RaceInv, DP!SettingUp
  <2> QED BY <1>0, <2>1 DEF LeftOver
<1>3. CASE ReadPulse
  <2>1. /\ pc = "pulse" /\ left["MM2S"] = 0
        /\ UNCHANGED <<stored, rd_ready, fpgaOut, left>>
    BY <1>0, <1>3 DEF ReadPulse, D!StartReadPulse, D!regs, fpga, DP!RaceInv, DP!SettingUp
  <2> QED BY <1>0, <2>1 DEF LeftOver
<1>4. CASE Killed
  <2>1. /\ left["MM2S"] = 0 /\ UNCHANGED <<stored, rd_ready, fpgaOut, left>>
    BY <1>0, <1>4 DEF Killed, AccessesRegister, Pulsing, D!Dies, D!regs, D!fpga, fpga,
       DP!RaceInv, DP!SettingUp
  <2> QED BY <1>0, <2>1 DEF LeftOver
<1>5. CASE Restart
  <2>1. at' = "reset" /\ UNCHANGED <<stored, rd_ready, fpgaOut, pulsed, left>>
    BY <1>5 DEF Restart, D!Restart, D!regs, D!fpga, fpga
  <2> QED BY <1>0, <2>1 DEF LeftOver, DP!Idle
<1>6. CASE Transfer
  <2>1. UNCHANGED <<at, stored, rd_ready, pulsed, fpgaOut>>
    BY <1>6, TransferIs
  <2>2. left'["MM2S"] > 0 => DP!Idle /\ (at = "reset" \/ pc' = "tx_wait")
    <3>1. CASE D!TxLength
      <4>1. pc = "tx_length" /\ pc' = "tx_wait" /\ at = "poll"
        BY <1>0, <3>1 DEF D!TxLength, D!Goto, Places, SendSteps
      <4>2. op = "dma_transmit_32"
        BY <1>0, <4>1 DEF Places, SendSteps
      <4>3. Sent
        BY <4>1, <4>2 DEF Inv, Protocol
      <4> QED BY <4>1, <4>3 DEF Sent
    <3>2. CASE D!SetUp
      BY <3>2 DEF D!SetUp, D!InitialAXIDMA, D!Channels
    <3>3. CASE D!Map \/ D!MapFails \/ D!Fill \/ D!TxClear \/ D!IsMM2SIOC
      <4>1. UNCHANGED left
        BY <3>3 DEF D!Map, D!MemoryMap, D!MapFails, D!Dies, D!Fill, D!TxClear,
           D!ClearAXIDMAInterrupt, D!IsMM2SIOC, D!regs
      <4>2. at = "reset" \/ left["MM2S"] = 0
        BY <1>0, <3>3 DEF Places, DP!RaceInv, DP!SettingUp, D!Map, D!MapFails, D!Fill,
           D!TxClear, D!IsMM2SIOC
      <4> QED BY <1>0, <4>1, <4>2 DEF LeftOver
    <3>4. CASE D!RxMemset \/ D!RxClear \/ D!RxLength \/ D!IsS2MMIOC \/ D!RxCopy
      <4>1. left'["MM2S"] = left["MM2S"]
        BY <3>4, RegsHere DEF D!RxMemset, D!RxClear, D!RxLength, D!SetTransferingBufferSize,
           D!ClearAXIDMAInterrupt, D!IsS2MMIOC, D!RxCopy, D!regs
      <4>2. left["MM2S"] = 0
        BY <1>0, <3>4 DEF DP!RaceInv, DP!SettingUp, D!RxMemset, D!RxClear, D!RxLength,
           D!IsS2MMIOC, D!RxCopy
      <4> QED BY <4>1, <4>2
    <3>5. CASE D!Reset
      BY <1>0, <3>5 DEF D!Reset, Places
    <3> QED BY <1>6, <3>1, <3>2, <3>3, <3>4, <3>5, TransferIs DEF Transfer, D!Serve
  <2> QED BY <1>0, <2>1, <2>2 DEF LeftOver, DP!Idle
<1>7. CASE FpgaReset
  <2>1. /\ UNCHANGED <<at, pc, left>> /\ ~pulsed' /\ fpgaOut' = <<>>
    BY <1>7 DEF FpgaReset, test, cpu
  <2> QED BY <1>0, <2>1 DEF LeftOver, DP!Idle
<1>8. CASE FpgaProcess
  <2>1. /\ UNCHANGED <<at, pc, left, pulsed, fpgaOut>> /\ stored # <<>>
    BY <1>8 DEF FpgaProcess, test, cpu, dma
  <2> QED BY <1>0, <2>1 DEF LeftOver, DP!Idle
<1>9. CASE FpgaAnswer
  BY <1>0, <1>9 DEF FpgaAnswer, LeftOver, DP!Idle
<1>10. CASE FpgaTakes
  <2>1. /\ left["MM2S"] > 0 /\ left'["MM2S"] = left["MM2S"] - 1
        /\ UNCHANGED <<at, pc, pulsed, fpgaOut, rd_ready>>
    BY <1>10, RegsHere DEF FpgaTakes, D!MM2SWord, D!MM2SMoves, D!Busy, D!cpu, test
  <2> QED BY <1>0, <2>1 DEF LeftOver, DP!Idle
<1>11. CASE FpgaSends
  <2>1. /\ left'["MM2S"] = left["MM2S"] /\ fpgaOut # <<>>
        /\ UNCHANGED <<at, pc, pulsed, stored, rd_ready>>
    BY <1>11, RegsHere DEF FpgaSends, D!S2MMWord, D!S2MMMoves, D!cpu, test, fpga
  <2> QED BY <1>0, <2>1 DEF LeftOver, DP!Idle
<1>12. CASE DmaError
  <2>1. /\ left'["MM2S"] = left["MM2S"] \/ left'["MM2S"] = 0
        /\ UNCHANGED <<at, pc, pulsed, fpgaOut, stored, rd_ready>>
    BY <1>12, RegsHere DEF DmaError, D!DmaError, D!Fault, D!Channels, D!cpu, D!fpga, test, fpga
  <2> QED BY <1>0, <2>1 DEF LeftOver, DP!Idle
<1>13. CASE PulseEdge
  BY <1>0, <1>13, PulseEdgeIs DEF LeftOver, DP!Idle, dma, cpu, test, fpga
<1> QED BY <1>1, <1>2, <1>3, <1>4, <1>5, <1>6, <1>7, <1>8, <1>9, <1>10, <1>11, <1>12, <1>13
  DEF Next, Program, PulseEdge

LEMMA CleanStep ==
  ASSUME Inv, Next
  PROVE  Clean'
<1>0. Clean /\ LeftOver /\ Places
  BY DEF Inv, Protocol
<1>1. CASE ResetFpga \/ Look \/ Poll \/ NextTest \/ Restart
  BY <1>1 DEF ResetFpga, Look, Poll, NextTest, Restart, Step, Clean
<1>2. CASE Announce \/ CopyBit \/ WriteInstruct
  BY <1>0, <1>2 DEF Announce, CopyBit, WriteInstruct, Step, Clean, Empty, dma, fpga
<1>3. CASE ReadPulse
  <2>1. at' = at /\ at \in {"poll", "got"}
    BY <1>0, <1>3 DEF ReadPulse, D!StartReadPulse, Places, PulseSteps, test
  <2> QED BY <2>1 DEF Clean
<1>4. CASE Transfer \/ Killed
  <2>1. UNCHANGED <<at, up, stored, rd_ready, pulsed, fpgaOut>>
    BY <1>4, TransferIs DEF Killed, D!Dies, D!fpga, test, fpga
  <2> QED BY <1>0, <2>1 DEF Clean, Empty
<1>5. CASE FpgaReset \/ FpgaProcess \/ FpgaAnswer \/ FpgaSends
  <2>1. CASE FpgaReset
    BY <2>1 DEF FpgaReset, Clean, Empty
  <2>2. CASE FpgaProcess \/ FpgaAnswer
    BY <1>0, <2>2 DEF FpgaProcess, FpgaAnswer, Clean, Empty, test
  <2>3. CASE FpgaSends
    BY <1>0, <2>3 DEF FpgaSends, D!S2MMWord, Clean, Empty, test, fpga
  <2> QED BY <1>5, <2>1, <2>2, <2>3
<1>6. CASE FpgaTakes
  <2>1. left["MM2S"] > 0 /\ at' = at
    BY <1>6 DEF FpgaTakes, D!MM2SWord, D!MM2SMoves, D!Busy, test
  <2>2. at \in {"reset", "poll"}
    BY <1>0, <2>1 DEF LeftOver, Places, SendSteps
  <2> QED BY <2>1, <2>2 DEF Clean
<1>7. CASE DmaError
  BY <1>0, <1>7 DEF DmaError, D!DmaError, D!fpga, Clean, Empty, test, fpga
<1>8. CASE PulseEdge
  BY <1>0, <1>8, PulseEdgeIs DEF Clean, Empty, dma, test, fpga
<1> QED BY <1>1, <1>2, <1>3, <1>4, <1>5, <1>6, <1>7, <1>8 DEF Next, Program, PulseEdge

-----------------------------------------------------------------------------
(* The words on their way.                                                   *)

LEMMA PrefixExtends ==
  ASSUME NEW s \in Seq(Nat), NEW t \in Seq(Nat), DP!Prefixed(s, t), Len(s) < Len(t)
  PROVE  /\ DP!Prefixed(Append(s, t[Len(s) + 1]), t)
         /\ Len(Append(s, t[Len(s) + 1])) = Len(s) + 1
<1> DEFINE u == Append(s, t[Len(s) + 1])
<1>1. Len(s) \in Nat /\ Len(t) \in Nat /\ t[Len(s) + 1] \in Nat
  OBVIOUS
<1>2. /\ Len(u) = Len(s) + 1 /\ u[Len(s) + 1] = t[Len(s) + 1]
      /\ \A i \in 1 .. Len(s) : u[i] = s[i]
  BY <1>1, AppendProperties
<1> HIDE DEF u
<1>3. \A i \in 1 .. Len(s) + 1 : i = Len(s) + 1 \/ i \in 1 .. Len(s)
  BY <1>1
<1>4. DP!Prefixed(u, t)
  BY <1>1, <1>2, <1>3 DEF DP!Prefixed
<1> QED BY <1>2, <1>4 DEF u

(* What Sent speaks of. *)
LEMMA SentTypes ==
  ASSUME Inv, Sent, op = "dma_transmit_32"
  PROVE  /\ words = Data(datablock) /\ words \in Seq(Nat) /\ Len(words) \in Nat
         /\ Len(words) <= TX_WORDS /\ stored \in Seq(Nat) /\ Len(stored) \in Nat
         /\ at = "poll" /\ pc # "reset" /\ pc \in SendSteps \union {"caller", "dead"}
         /\ Len(stored) <= Len(words)
         /\ Len(stored) = Len(words) => stored = words
<1>1. /\ words = Data(datablock) /\ stored \in Seq(Nat) /\ at = "poll" /\ pc # "reset"
  BY DEF Inv, Places, TestTypeOK
<1>2. words \in Seq(Nat) /\ Len(words) <= TX_WORDS
  BY <1>1, DataType
<1>3. Len(stored) <= Len(words)
  BY DEF Sent, DP!Prefixed
<1>4. Len(stored) = Len(words) => stored = words
  BY <1>1, <1>2, DP!PrefixFact, Here DEF Sent
<1>5. pc \in DP!Steps
  BY DEF Inv, DP!Inv, DP!TypeOK
<1>6. pc \in SendSteps \union {"caller", "dead"}
  BY <1>1, <1>5 DEF Inv, Places, SendSteps, PulseSteps, DP!RecvSteps, DP!Steps, DP!SettingUp
<1> QED BY <1>1, <1>2, <1>3, <1>4, <1>6

(* The look at a clean FPGA sends. *)
LEMMA LookSends ==
  ASSUME Inv, Look, ~wr_busy
  PROVE  Sent'
<1>1. /\ pc' = "fill" /\ words' = Data(datablock) /\ testnum' = testnum /\ at = "look"
      /\ UNCHANGED <<stored, rd_ready, fpgaOut, pulsed, up, command>>
  BY DEF Look, Step, D!Call, D!fpga, register, fpga
<1>2. up /\ stored = <<>> /\ ~rd_ready /\ DP!Idle /\ Announces(datablock)
  BY <1>1 DEF wr_busy, Inv, Protocol, Clean, Empty, Numbered, DP!Idle
<1>3. DP!Idle' /\ Announces(datablock)'
  BY <1>1, <1>2, SameBlock DEF DP!Idle
<1>4. DP!LoadInv'
  BY <1>1 DEF DP!LoadInv
<1>5. Len(<<>>) = 0 /\ Len(Data(datablock)) \in Nat
  BY DataType
<1>6. DP!Prefixed(<<>>, Data(datablock))
  BY <1>5 DEF DP!Prefixed
<1>7. DP!Prefixed(stored, words)'
  BY <1>1, <1>2, <1>6 DEF DP!Prefixed
<1> QED BY <1>1, <1>2, <1>3, <1>4, <1>7 DEF Sent, SendSteps
LEMMA SentTransfer ==
  ASSUME Inv, Sent, op = "dma_transmit_32", Transfer
  PROVE  Sent'
<1>0. DP!RaceInv /\ DP!LoadInv /\ DP!Prefixed(stored, words)
  BY DEF Inv, DP!Inv, Sent
<1>1. /\ UNCHANGED <<command, testnum, up, stored, rd_ready, words, pulsed, fpgaOut>>
  BY TransferIs DEF register
<1>2. up' /\ DP!Idle' /\ Announces(datablock)' /\ DP!Prefixed(stored, words)'
      /\ (rd_ready' => stored' = words')
  BY <1>0, <1>1, SameBlock DEF Sent, DP!Idle, DP!Prefixed
<1>3. CASE D!Fill
  <2>1. /\ pc = "fill" /\ pc' = "tx_clear"
        /\ tx_packet' = [i \in 1 .. TX_WORDS |-> IF i <= Len(words) THEN words[i] ELSE tx_packet[i]]
    BY <1>3 DEF D!Fill, D!Goto
  <2>2. ASSUME NEW i \in 1 .. Len(words)
        PROVE  DP!Held(words)[i] = IF i <= TX_WORDS THEN tx_packet'[i] ELSE DP!Behind
    <3>1. i \in 1 .. TX_WORDS /\ i <= TX_WORDS
      BY SentTypes, SpeedAssumption
    <3>2. DP!Held(words)[i] = words[i]
      BY <3>1, SentTypes, DP!HeldIs, Here
    <3> QED BY <2>1, <3>1, <3>2
  <2>3. DP!LoadInv'
    BY <1>1, <2>1, <2>2 DEF DP!LoadInv
  <2> QED BY <1>1, <1>2, <2>1, <2>3 DEF Sent, SendSteps
<1>4. CASE D!TxClear
  <2>1. pc = "tx_clear" /\ pc' = "tx_length" /\ UNCHANGED tx_packet
    BY <1>4 DEF D!TxClear, D!Goto, D!mem
  <2>2. DP!LoadInv'
    BY <1>0, <1>1, <2>1 DEF DP!LoadInv
  <2> QED BY <1>1, <1>2, <2>1, <2>2 DEF Sent, SendSteps
<1>5. CASE D!TxLength
  <2>1. /\ pc = "tx_length" /\ pc' = "tx_wait" /\ UNCHANGED <<tx_packet, ioc>>
        /\ left' = [left EXCEPT !["MM2S"] = IF halted["MM2S"] THEN 0 ELSE Len(words)]
        /\ length' = [length EXCEPT !["MM2S"] = Len(words)]
    BY <1>5 DEF D!TxLength, D!Goto, D!mem, D!SetTransferingBufferSize
  <2>2. length'["MM2S"] = Len(words) /\ left'["MM2S"] \in {0, Len(words)}
    BY <2>1, RegsHere
  <2>3. DP!LoadInv'
    BY <1>0, <1>1, <2>1, <2>2 DEF DP!LoadInv
  <2>4. ~ioc'["MM2S"]
    BY <1>0, <2>1 DEF DP!RaceInv
  <2>5. stored = <<>> /\ Len(<<>>) = 0
    BY <2>1 DEF Sent
  <2>6. left'["MM2S"] > 0 => Len(stored') + left'["MM2S"] = Len(words')
    BY <1>1, <2>2, <2>5, SentTypes
  <2> QED BY <1>2, <2>1, <2>3, <2>4, <2>6 DEF Sent, SendSteps
<1>6. CASE D!IsMM2SIOC
  <2>1. pc = "tx_wait" /\ pc' = "caller" /\ ioc["MM2S"]
    BY <1>6 DEF D!IsMM2SIOC, D!Goto
  <2>2. DP!LoadInv'
    BY <2>1 DEF DP!LoadInv
  <2> QED BY <1>1, <1>2, <2>1, <2>2 DEF Sent, SendSteps
<1>7. D!Fill \/ D!TxClear \/ D!TxLength \/ D!IsMM2SIOC
  BY SentTypes, TransferIs DEF Transfer, D!Serve, D!Map, D!MapFails, D!SetUp, D!Reset,
                              D!RxMemset, D!RxClear, D!RxLength, D!IsS2MMIOC, D!RxCopy,
                              SendSteps
<1> QED BY <1>3, <1>4, <1>5, <1>6, <1>7

LEMMA SentTakes ==
  ASSUME Inv, Sent, op = "dma_transmit_32", FpgaTakes, DP!RaceInv'
  PROVE  Sent'
<1>1. /\ left["MM2S"] > 0 /\ left' = [left EXCEPT !["MM2S"] = @ - 1]
      /\ UNCHANGED <<pc, words, pulsed, fpgaOut, tx_packet, length, command, testnum, up, rd_ready>>
      /\ stored' = Append(stored, D!MM2SWordOut)
  BY DEF FpgaTakes, D!MM2SWord, D!MM2SMoves, D!Busy, D!cpu, D!mem, test, register
<1>2. pc = "tx_wait"
  BY <1>1, SentTypes DEF Inv, LeftOver
<1>3. /\ Len(stored) + left["MM2S"] = Len(words) /\ DP!LoadInv /\ DP!Prefixed(stored, words)
      /\ rd_ready => stored = words
  BY <1>1, <1>2 DEF Sent
<1>4. left["MM2S"] \in Nat /\ left'["MM2S"] = left["MM2S"] - 1
  BY <1>1, RegsHere
<1>5. Len(stored) < Len(words) /\ ~rd_ready
  BY <1>1, <1>3, <1>4, SentTypes
<1>6. D!MM2SWordOut = words[Len(stored) + 1]
  <2> DEFINE i == Len(stored) + 1
  <2>1. length["MM2S"] = Len(words)
    BY <1>2, <1>3 DEF DP!LoadInv
  <2>2. D!At("MM2S") = i
    BY <1>3, <1>4, <2>1, SentTypes DEF D!At
  <2>3. i \in 1 .. Len(words) /\ i <= TX_WORDS
    BY <1>5, SentTypes, SpeedAssumption
  <2> HIDE DEF i
  <2>4. D!MM2SWordOut = tx_packet[i]
    BY <2>2, <2>3 DEF D!MM2SWordOut
  <2>5. DP!Held(words)[i] = tx_packet[i]
    BY <1>2, <1>3, <2>3 DEF DP!LoadInv
  <2>6. DP!Held(words)[i] = words[i]
    BY <2>3, SentTypes, DP!HeldIs, Here
  <2> QED BY <2>4, <2>5, <2>6 DEF i
<1>7. DP!Prefixed(stored', words) /\ Len(stored') = Len(stored) + 1 /\ stored' \in Seq(Nat)
  <2>1. stored' = Append(stored, words[Len(stored) + 1]) /\ words[Len(stored) + 1] \in Nat
    BY <1>1, <1>5, <1>6, SentTypes
  <2>2. stored' \in Seq(Nat)
    BY <2>1, SentTypes
  <2> QED BY <1>3, <1>5, <2>1, <2>2, PrefixExtends, SentTypes
<1>8. Len(stored') + left'["MM2S"] = Len(words')
  BY <1>1, <1>3, <1>4, <1>7, SentTypes
<1>9. ioc'["MM2S"] => stored' = words'
  <2>1. SUFFICES ASSUME ioc'["MM2S"] PROVE stored' = words
    BY <1>1
  <2>2. left'["MM2S"] = 0
    BY <1>1, <1>2, <2>1 DEF DP!RaceInv
  <2>3. Len(stored') = Len(words)
    BY <1>1, <1>7, <1>8, <2>2, SentTypes
  <2> QED BY <1>7, <2>3, DP!PrefixFact, SentTypes, Here
<1>10. DP!LoadInv' /\ DP!Idle' /\ DP!Prefixed(stored, words)' /\ Announces(datablock)'
  BY <1>1, <1>3, <1>7, SameBlock DEF Sent, DP!LoadInv, DP!Idle, DP!Prefixed
<1> QED BY <1>1, <1>2, <1>5, <1>8, <1>9, <1>10 DEF Sent, SendSteps

LEMMA SentOutside ==
  ASSUME Inv, Sent, op = "dma_transmit_32", Killed \/ Outside, DP!RaceInv'
  PROVE  Sent'
<1>1. CASE Killed
  <2>1. pc \in {"caller", "dead"} /\ pc' = "dead"
    BY <1>1, SentTypes DEF Killed, AccessesRegister, Pulsing, D!Dies, SendSteps
  <2>2. UNCHANGED <<command, testnum, up, stored, rd_ready, words, pulsed, fpgaOut>>
    BY <1>1 DEF Killed, D!Dies, D!fpga, register, test, fpga
  <2>3. DP!LoadInv' /\ DP!Idle' /\ DP!Prefixed(stored, words)' /\ Announces(datablock)'
    BY <2>1, <2>2, SameBlock DEF Sent, DP!LoadInv, DP!Idle, DP!Prefixed
  <2> QED BY <2>1, <2>2, <2>3 DEF Sent, SendSteps
<1>2. CASE FpgaReset \/ FpgaAnswer \/ FpgaSends
  BY <1>2 DEF FpgaReset, FpgaAnswer, FpgaSends, D!S2MMWord, Sent, DP!Idle
<1>3. CASE FpgaTakes
  BY <1>3, SentTakes
<1>4. CASE FpgaProcess
  <2>1. /\ UNCHANGED <<command, testnum, up, stored, words, pc, pulsed, fpgaOut>>
        /\ UNCHANGED <<tx_packet, ioc, left, length>>
        /\ Len(stored) = (command % INSTRUCT) * WORDS_PER_BLOCK
    BY <1>4 DEF FpgaProcess, register, test, dma, cpu
  <2>2. command % INSTRUCT = datablock
    BY DEF Sent, Announces
  <2>3. Len(stored) = Len(words)
    BY <2>1, <2>2, SentTypes, DataType
  <2>4. stored = words
    BY <2>3, SentTypes
  <2>5. DP!LoadInv' /\ DP!Idle' /\ DP!Prefixed(stored, words)' /\ Announces(datablock)'
    BY <2>1, SameBlock DEF Sent, DP!LoadInv, DP!Idle, DP!Prefixed
  <2> QED BY <2>1, <2>4, <2>5 DEF Sent, SendSteps
<1>5. CASE DmaError
  <2>1. /\ UNCHANGED <<command, testnum, up, stored, rd_ready, words, pc, pulsed, fpgaOut>>
        /\ UNCHANGED <<tx_packet, ioc, length>>
        /\ left'["MM2S"] = left["MM2S"] \/ left'["MM2S"] = 0
    BY <1>5, RegsHere DEF DmaError, D!DmaError, D!Fault, D!Channels, D!mem, D!cpu, D!fpga,
       register, test, fpga
  <2>2. DP!LoadInv' /\ DP!Idle' /\ DP!Prefixed(stored, words)' /\ Announces(datablock)'
    BY <2>1, SameBlock DEF Sent, DP!LoadInv, DP!Idle, DP!Prefixed
  <2>3. left'["MM2S"] > 0 => left'["MM2S"] = left["MM2S"]
    BY <2>1
  <2> QED BY <2>1, <2>2, <2>3 DEF Sent, SendSteps
<1> QED BY <1>1, <1>2, <1>3, <1>4, <1>5 DEF Outside

(* The FPGA has all the words, and is asked for its answer. *)
LEMMA SentAsked ==
  ASSUME Inv, Sent, op = "dma_transmit_32", Poll
  PROVE  Fetching'
<1>1. /\ pc' = "pulse" /\ at' = "got" /\ testnum' = testnum /\ rd_ready
      /\ UNCHANGED <<stored, rd_ready, fpgaOut, pulsed, up, restarts>>
  BY DEF Poll, Step, D!Call, D!fpga, fpga
<1>2. up /\ stored = Data(datablock) /\ DP!Idle
  BY <1>1, SentTypes DEF Sent
<1>3. Asked'
  BY <1>1, <1>2, SameData DEF Asked, DP!Idle, DP!RecvSteps
<1>4. DP!OwnPacket'
  BY <1>1, <1>2 DEF DP!OwnPacket, DP!RecvSteps, DP!Idle
<1> QED BY <1>1, <1>2, <1>3, <1>4 DEF Fetching
-----------------------------------------------------------------------------
(* The look came too early: no answer comes.                                 *)

LEMMA LookStarves ==
  ASSUME Inv, Look, wr_busy
  PROVE  Starved' /\ op' # "dma_transmit_32"
<1>1. /\ pc = "caller" /\ at = "look" /\ at' = "poll"
      /\ UNCHANGED <<stored, rd_ready, fpgaOut, up>>
  BY DEF Look, Step, D!Call, D!fpga, register, fpga, dma
<1>2. ~up
  BY <1>1 DEF wr_busy, Inv, Protocol, Clean, Empty
<1>3. \/ pc' = "pulse" /\ op' = "dma_recv_32" /\ rd_ready
      \/ pc' = "caller" /\ op' = op
  <2>1. (D!Call("dma_recv_32", "pulse", <<>>) /\ rd_ready) \/ UNCHANGED dma
    BY DEF Look
  <2> QED BY <1>1, <2>1 DEF D!Call, dma, cpu
<1>4. rd_ready => fpgaOut = <<>>
  BY DEF Inv, LeftOver
<1>5. op # "dma_transmit_32"
  BY <1>1 DEF Inv, Places
<1> QED BY <1>1, <1>2, <1>3, <1>4, <1>5 DEF Starved, PulseSteps, DP!RecvSteps

LEMMA StarvedStays ==
  ASSUME Inv, Starved, at \in {"poll", "got"}, op # "dma_transmit_32",
         Poll \/ ReadPulse \/ PulseEdge \/ Transfer \/ Killed \/ Outside
  PROVE  Starved'
<1> USE DEF Starved, PulseSteps, DP!RecvSteps
<1>0. /\ LeftOver /\ DP!RaceInv /\ pc \notin SendSteps \union {"map", "init", "reset"}
  BY DEF Inv, DP!Inv, Places
<1>1. CASE Poll
  <2>1. /\ rd_ready /\ pc' = "pulse" /\ UNCHANGED <<fpgaOut, up>>
    BY <1>1 DEF Poll, D!Call, D!fpga, fpga
  <2>2. ~up /\ fpgaOut = <<>>
    BY <1>0, <2>1 DEF LeftOver, Empty
  <2> QED BY <2>1, <2>2
<1>2. CASE ReadPulse
  BY <1>2 DEF ReadPulse, D!StartReadPulse, test, fpga, Empty
<1>3. CASE Transfer
  <2>1. UNCHANGED <<at, up, stored, rd_ready, fpgaOut>>
    BY <1>3, TransferIs
  <2>2. CASE D!RxLength
    <3>1. pc = "rx_length" /\ pc' = "rx_wait" /\ ioc' = ioc
      BY <2>2 DEF D!RxLength, D!Goto, D!SetTransferingBufferSize
    <3> QED BY <1>0, <2>1, <3>1 DEF Empty, DP!RaceInv
  <2>3. CASE ~D!RxLength
    <3>1. \/ pc = "rx_memset" /\ pc' = "rx_clear"
          \/ pc = "rx_clear" /\ pc' = "rx_length"
      BY <1>0, <1>3, <2>3, TransferIs DEF Transfer, D!Serve, D!Map, D!MapFails, D!SetUp,
                                         D!Reset, D!Fill, D!TxClear, D!TxLength, D!IsMM2SIOC,
                                         D!RxMemset, D!RxClear, D!IsS2MMIOC, D!RxCopy, D!Goto,
                                         SendSteps
    <3> QED BY <2>1, <3>1 DEF Empty
  <2> QED BY <2>2, <2>3
<1>4. CASE Killed
  BY <1>4 DEF Killed, D!Dies, D!fpga, test, fpga, Empty
<1>5. CASE FpgaReset
  BY <1>5 DEF FpgaReset, Empty, test, cpu
<1>6. CASE FpgaTakes
  BY <1>0, <1>6 DEF FpgaTakes, D!MM2SWord, D!MM2SMoves, D!Busy, LeftOver, SendSteps
<1>7. CASE FpgaProcess \/ FpgaAnswer
  BY <1>7 DEF FpgaProcess, FpgaAnswer, Empty
<1>8. CASE FpgaSends
  <2>1. fpgaOut # <<>> /\ UNCHANGED <<at, up, pc>>
    BY <1>8 DEF FpgaSends, D!S2MMWord, D!cpu, test, fpga
  <2> QED BY <2>1 DEF Empty
<1>9. CASE DmaError
  <2>1. UNCHANGED <<at, up, pc, stored, rd_ready, fpgaOut, ioc>>
    BY <1>9 DEF DmaError, D!DmaError, D!Fault, D!cpu, D!fpga, test, fpga
  <2> QED BY <2>1 DEF Empty
<1>10. CASE PulseEdge
  BY <1>10, PulseEdgeIs DEF Empty, dma, cpu, test, fpga
<1> QED BY <1>1, <1>2, <1>3, <1>4, <1>5, <1>6, <1>7, <1>8, <1>9, <1>10 DEF Outside

-----------------------------------------------------------------------------
(* The answer on its way.                                                    *)

LEMMA FetchingStays ==
  ASSUME Inv, Fetching, ReadPulse \/ PulseEdge \/ Transfer \/ Killed \/ Outside
  PROVE  Fetching'
<1> USE DEF DP!RecvSteps
<1>0. /\ up /\ at = "got" /\ (pc # "dead" => DP!OwnPacket) /\ (Asked \/ Answered)
      /\ LeftOver /\ DP!Inv /\ pc \notin SendSteps \union {"map", "init", "reset"}
  BY DEF Inv, Places, Fetching
<1>1. CASE ReadPulse
  <2>1. /\ pc = "pulse" /\ pc' = "rx_memset" /\ pulsed'
        /\ UNCHANGED <<at, testnum, restarts, up, stored, rd_ready, fpgaOut>>
    BY <1>1 DEF ReadPulse, D!StartReadPulse, test, fpga
  <2>2. DP!OwnPacket'
    BY <1>0, <1>1, <2>1, RecvHere, DP!OwnRecv, Here DEF ReadPulse
  <2>3. Asked'
    BY <1>0, <2>1, SameData DEF Asked, Answered
  <2> QED BY <1>0, <2>1, <2>2, <2>3 DEF Fetching
<1>2. CASE Transfer
  <2>1. UNCHANGED <<at, testnum, restarts, up, stored, rd_ready, pulsed, fpgaOut, packet>>
    BY <1>2, TransferIs
  <2>2. DP!RxMemset \/ DP!RxClear \/ DP!RxLength \/ DP!IsS2MMIOC \/ DP!RxCopy
    BY <1>0, <1>2, TransferIs, RecvHere DEF Transfer, D!Serve, D!Map, D!MapFails, D!SetUp,
       D!Reset, D!Fill, D!TxClear, D!TxLength, D!IsMM2SIOC, SendSteps
  <2>3. pc # "dead"
    BY <2>2 DEF DP!RxMemset, DP!RxClear, DP!RxLength, DP!IsS2MMIOC, DP!RxCopy
  <2>7. DP!OwnPacket'
    BY <1>0, <2>2, <2>3, DP!OwnRecv, Here
  <2>4. \/ pc \in DP!RecvSteps /\ pc' \in DP!RecvSteps
        \/ pc = "rx_copy" /\ pc' = "caller"
    BY <2>2 DEF DP!RxMemset, DP!RxClear, DP!RxLength, DP!IsS2MMIOC, DP!RxCopy, DP!Goto
  <2>5. pc = "rx_copy" => ~pulsed
    BY <1>0, <2>3 DEF DP!OwnPacket, DP!Received, DP!Idle
  <2>6. CASE Asked
    BY <1>0, <2>1, <2>4, <2>5, <2>6, <2>7, SameData DEF Fetching, Asked
  <2>8. CASE Answered
    <3>1. Answer(Data(datablock))' = Answer(Data(datablock))
      BY <2>1, SameData
    <3>2. Answered'
      BY <2>1, <2>4, <2>8, <3>1 DEF Answered
    <3> QED BY <1>0, <2>1, <2>7, <3>2 DEF Fetching
  <2> QED BY <1>0, <2>6, <2>8
<1>3. CASE Killed
  <2>1. /\ pc' = "dead"
        /\ UNCHANGED <<at, testnum, restarts, up, stored, rd_ready, pulsed, fpgaOut, packet>>
    BY <1>3 DEF Killed, D!Dies, D!fpga, test, fpga
  <2>2. Answer(Data(datablock))' = Answer(Data(datablock)) /\ Data(datablock)' = Data(datablock)
    BY <2>1, SameData
  <2>3. Asked' \/ Answered'
    BY <1>0, <2>1, <2>2 DEF Asked, Answered
  <2> QED BY <1>0, <2>1, <2>3 DEF Fetching
<1>4. CASE FpgaReset \/ FpgaProcess
  BY <1>0, <1>4 DEF FpgaReset, FpgaProcess, Asked, Answered
<1>5. CASE FpgaTakes
  BY <1>0, <1>5 DEF FpgaTakes, D!MM2SWord, D!MM2SMoves, D!Busy, LeftOver, SendSteps
<1>6. CASE FpgaAnswer
  <2>1. /\ pulsed /\ rd_ready /\ fpgaOut = <<>>
        /\ packet' = Answer(stored) /\ fpgaOut' = packet' /\ ~pulsed'
        /\ stored' = <<>> /\ ~rd_ready'
        /\ UNCHANGED <<cpu, at, testnum, up, DP!mem, DP!regs>>
        /\ UNCHANGED <<pc, restarts>>
    BY <1>6 DEF cpu, FpgaAnswer, test, DP!mem, DP!regs
  <2>2. stored = Data(datablock)
    BY <1>0, <2>1 DEF Asked, Answered
  <2>3. packet' \in Seq(Nat) /\ packet' # <<>>
    <3>1. /\ stored \in Seq(Nat) /\ Len(stored) = datablock * WORDS_PER_BLOCK
      BY <2>2, DataType DEF Inv, TestTypeOK
    <3>2. datablock \in Nat \ {0} /\ WORDS_PER_BLOCK \in Nat \ {0}
      BY TableFacts, SpeedAssumption DEF Inv, TestTypeOK
    <3>3. datablock * WORDS_PER_BLOCK # 0
      BY <3>2
    <3>4. Len(packet') # 0 /\ packet' \in Seq(Nat)
      BY <2>1, <3>1, <3>3, AnswerType
    <3> QED BY <3>4
  <2>4. pc # "dead" => DP!OwnPacket'
    BY <1>0, <2>1, <2>3, DP!OwnAnswer, Here DEF cpu, DP!cpu
  <2>5. pc # "pulse"
    BY <1>0, <2>1 DEF DP!OwnPacket, DP!Idle
  <2>6. packet' = Answer(Data(datablock))'
    BY <2>1, <2>2, SameData
  <2> QED BY <1>0, <2>1, <2>4, <2>5, <2>6 DEF Fetching, Answered
<1>7. CASE FpgaSends
  <2>1. /\ fpgaOut # <<>>
        /\ UNCHANGED <<pc, at, testnum, restarts, up, stored, rd_ready, pulsed, packet>>
    BY <1>7 DEF FpgaSends, D!S2MMWord, D!cpu, test, fpga
  <2>2. pc # "dead" => DP!OwnPacket'
    BY <1>0, <1>7, StreamHere, DP!OwnWord, Here DEF FpgaSends
  <2>3. Answer(Data(datablock))' = Answer(Data(datablock))
    BY <2>1, SameData
  <2>4. Answered'
    BY <1>0, <2>1, <2>3 DEF Asked, Answered
  <2> QED BY <1>0, <2>1, <2>2, <2>4 DEF Fetching
<1>8. CASE DmaError
  <2>1. UNCHANGED <<pc, at, testnum, restarts, up, stored, rd_ready, pulsed, fpgaOut, packet>>
    BY <1>8 DEF DmaError, D!DmaError, D!cpu, D!fpga, test, fpga
  <2>2. pc # "dead" => DP!OwnPacket'
    BY <1>0, <1>8, StreamHere, DP!OwnFault, Here DEF DmaError
  <2>3. Answer(Data(datablock))' = Answer(Data(datablock)) /\ Data(datablock)' = Data(datablock)
    BY <2>1, SameData
  <2>4. Asked' \/ Answered'
    BY <1>0, <2>1, <2>3 DEF Asked, Answered
  <2> QED BY <1>0, <2>1, <2>2, <2>4 DEF Fetching
<1>9. CASE PulseEdge
  <2>1. /\ UNCHANGED <<pc, op, recvd, at, testnum, restarts, up, stored, rd_ready>>
        /\ UNCHANGED <<DP!mem, DP!regs, DP!fpga, DP!cpu, pulsed, fpgaOut, packet>>
    BY <1>9, PulseEdgeIs DEF dma, cpu, test, fpga, DP!mem, DP!regs, DP!fpga, DP!cpu
  <2>2. pc # "dead" => DP!OwnPacket'
    BY <1>0, <2>1, DP!OwnSame, Here
  <2>3. Answer(Data(datablock))' = Answer(Data(datablock)) /\ Data(datablock)' = Data(datablock)
    BY <2>1, SameData
  <2>4. Asked' \/ Answered'
    BY <1>0, <2>1, <2>3 DEF Asked, Answered
  <2> QED BY <1>0, <2>1, <2>2, <2>4 DEF Fetching
<1> QED BY <1>1, <1>2, <1>3, <1>4, <1>5, <1>6, <1>7, <1>8, <1>9 DEF Outside
-----------------------------------------------------------------------------
(* No wait misses its wake-up, whatever the FPGA does.                       *)

LEMMA ServedStep ==
  ASSUME Inv, Next
  PROVE  DP!TxServed'
<1>0. DP!Inv /\ DP!TxServed /\ Places
  BY DEF Inv
<1>1. CASE Transfer
  BY <1>0, <1>1, ServeHere, DP!TxServedServe, Here DEF Transfer
<1>2. CASE FpgaTakes \/ FpgaSends \/ DmaError
  <2>1. DP!MM2SWord \/ DP!S2MMWord \/ DP!DmaError
    BY <1>2, StreamHere DEF FpgaTakes, FpgaSends, DmaError
  <2> QED BY <1>0, <2>1, DP!TxServedStream, Here
<1>3. CASE FpgaReset \/ FpgaProcess \/ FpgaAnswer
  BY <1>0, <1>3 DEF FpgaReset, FpgaProcess, FpgaAnswer, dma, cpu, DP!TxServed
<1>4. CASE ResetFpga \/ Announce \/ CopyBit \/ WriteInstruct \/ Look \/ Poll \/ NextTest
  <2>1. pc' # "tx_wait"
    BY <1>4 DEF ResetFpga, Announce, CopyBit, WriteInstruct, Look, Poll, NextTest, Step, D!Call,
       dma, cpu
  <2> QED BY <2>1 DEF DP!TxServed
<1>5. CASE ReadPulse \/ Killed \/ Restart
  BY <1>5 DEF ReadPulse, Killed, Restart, D!StartReadPulse, D!Dies, D!Restart, DP!TxServed
<1>6. CASE PulseEdge
  BY <1>0, <1>6, PulseEdgeIs DEF dma, cpu, DP!TxServed
<1> QED BY <1>1, <1>2, <1>3, <1>4, <1>5, <1>6 DEF Next, Program, PulseEdge

-----------------------------------------------------------------------------
(* The theorems.                                                             *)

LEMMA ProtocolStep ==
  ASSUME Inv, Next, DP!RaceInv'
  PROVE  Protocol'
<1>0. Places /\ Clean' /\ (at \in {"poll", "got"} =>
        IF op = "dma_transmit_32" THEN Sent ELSE Starved \/ Fetching)
  BY CleanStep DEF Inv, Protocol
<1>1. CASE ResetFpga \/ Announce \/ CopyBit \/ WriteInstruct \/ NextTest \/ Restart
  <2>1. at' \notin {"poll", "got"}
    BY <1>1 DEF ResetFpga, Announce, CopyBit, WriteInstruct, NextTest, Restart, Step
  <2> QED BY <1>0, <2>1 DEF Protocol
<1>2. CASE Look
  <2>1. CASE ~wr_busy
    <3>1. op' = "dma_transmit_32"
      BY <1>2, <2>1 DEF Look, D!Call
    <3> QED BY <1>0, <1>2, <2>1, <3>1, LookSends DEF Protocol
  <2>2. CASE wr_busy
    BY <1>0, <1>2, <2>2, LookStarves DEF Protocol
  <2> QED BY <2>1, <2>2
<1>3. CASE Poll
  <2>1. at = "poll" /\ op' = "dma_recv_32"
    BY <1>3 DEF Poll, Step, D!Call
  <2>2. CASE op = "dma_transmit_32"
    BY <1>0, <1>3, <2>1, <2>2, SentAsked DEF Protocol
  <2>3. CASE op # "dma_transmit_32"
    <3>1. Starved
      BY <1>0, <2>1, <2>3 DEF Fetching
    <3>2. Starved'
      BY <1>3, <2>1, <2>3, <3>1, StarvedStays
    <3> QED BY <1>0, <2>1, <3>2 DEF Protocol
  <2> QED BY <2>2, <2>3
<1>4. CASE ReadPulse \/ PulseEdge \/ Transfer \/ Killed \/ Outside
  <2>1. at' = at /\ op' = op
    BY <1>4, TransferIs, OutsideIs, PulseEdgeIs
    DEF ReadPulse, D!StartReadPulse, Killed, D!Dies, test, cpu, dma
  <2>2. CASE at \notin {"poll", "got"}
    BY <1>0, <2>1, <2>2 DEF Protocol
  <2>3. CASE at \in {"poll", "got"} /\ op = "dma_transmit_32"
    <3>1. ~ReadPulse /\ ~PulseEdge
      BY <1>0, <2>3, PulseEdgeIs
      DEF ReadPulse, D!StartReadPulse, Places, PulseSteps, DP!RecvSteps
    <3>2. Sent'
      BY <1>0, <1>4, <2>3, <3>1, SentTransfer, SentOutside
    <3> QED BY <1>0, <2>1, <2>3, <3>2 DEF Protocol
  <2>4. CASE at \in {"poll", "got"} /\ op # "dma_transmit_32"
    <3>1. Starved' \/ Fetching'
      BY <1>0, <1>4, <2>4, StarvedStays, FetchingStays
    <3> QED BY <1>0, <2>1, <2>4, <3>1 DEF Protocol
  <2> QED BY <2>2, <2>3, <2>4
<1> QED BY <1>1, <1>2, <1>3, <1>4 DEF Next, Program, Outside, PulseEdge

LEMMA InvInit == Init => Inv
<1> SUFFICES ASSUME Init PROVE Inv
  OBVIOUS
<1>1. DP!Inv
  BY InitHere, DP!InvInit, Here DEF Init
<1>2. /\ pc = "map" /\ op = "none" /\ fpgaOut = <<>> /\ at = "reset" /\ testnum = 1
      /\ left["MM2S"] = 0 /\ length["MM2S"] = 0 /\ words = <<>>
  BY DEF Init, D!Init, D!EngineInit, D!Channels
<1>3. TestTypeOK
  <2>1. <<>> \in Seq(Nat) /\ 0 \in 0 .. 2 * INSTRUCT - 1
    BY InstructValues
  <2> QED BY <1>2, <2>1, TableFacts DEF Init, RegisterInit, TestTypeOK
<1>4. RegInv
  BY RegInitInv DEF Init
<1>5. Places /\ Numbered /\ LeftOver /\ Protocol
  BY <1>2 DEF Places, SendSteps, PulseSteps, DP!RecvSteps, Numbered, LeftOver, Protocol, Clean
<1>6. DP!TxServed
  BY <1>2 DEF DP!TxServed
<1>7. Fits
  <2>1. Len(<<>>) = 0
    OBVIOUS
  <2> QED BY <1>2, <2>1, SpeedAssumption DEF Fits
<1> QED BY <1>1, <1>3, <1>4, <1>5, <1>6, <1>7 DEF Inv

LEMMA InvSame == Inv /\ UNCHANGED vars => Inv'
<1> SUFFICES ASSUME Inv, UNCHANGED vars PROVE Inv'
  OBVIOUS
<1>1. /\ UNCHANGED <<register, dma, test, fpga>>
      /\ UNCHANGED <<cpu, DP!cpu, DP!mem, DP!regs, DP!fpga, fpgaIn, fpgaOut, packet>>
  BY DEF vars, dma, cpu, DP!cpu, DP!mem, DP!regs, DP!fpga
<1>2. DP!Inv'
  <2>1. DP!Inv /\ fpgaOut \in Seq(Nat) /\ packet \in Seq(Nat)
    BY DP!TypeParts, Here DEF Inv, DP!Inv, DP!FpgaTypeOK
  <2> QED BY <1>1, <2>1, FpgaKeeps
<1>3. TestTypeOK' /\ Places' /\ Numbered' /\ Fits'
  BY <1>1, SameBlock, SameData DEF Inv, TestTypeOK, Places, Numbered, Fits, INSTRUCT, READ,
                                  RESET, Two, register, w_vars, test, fpga, dma, cpu
<1>4. RegInv'
  BY <1>1, SameKeeps DEF Inv, register
<1>5. LeftOver' /\ Clean'
  BY <1>1 DEF Inv, Protocol, LeftOver, Clean, Empty, DP!Idle, test, fpga, dma, cpu
<1>6. Sent => Sent'
  BY <1>1, SameBlock DEF Sent, DP!Idle, DP!LoadInv, DP!Prefixed, register, test, fpga, dma, cpu
<1>7. Starved => Starved'
  BY <1>1 DEF Starved, Empty, test, fpga, dma, cpu
<1>8. Fetching => Fetching'
  <2>1. DP!OwnPacket => DP!OwnPacket'
    BY <1>1, DP!OwnSame, Here
  <2>2. Asked => Asked'
    BY <1>1, SameData DEF Asked, test, fpga, dma, cpu
  <2>3. Answer(Data(datablock))' = Answer(Data(datablock))
    BY <1>1, SameData DEF test, dma, cpu
  <2>4. Answered => Answered'
    BY <1>1, <2>3 DEF Answered, fpga, dma, cpu
  <2> QED BY <1>1, <2>1, <2>2, <2>4 DEF Fetching, fpga, test, dma, cpu
<1>9. Protocol'
  BY <1>1, <1>5, <1>6, <1>7, <1>8 DEF Inv, Protocol, test, dma, cpu
<1>10. DP!TxServed'
  BY <1>1 DEF Inv, DP!TxServed, dma, cpu
<1> QED BY <1>2, <1>3, <1>4, <1>5, <1>9, <1>10 DEF Inv

LEMMA InvStep == Inv /\ [Next]_vars => Inv'
<1>1. ASSUME Inv, Next PROVE Inv'
  <2>1. DP!Inv' /\ DP!RaceInv'
    BY <1>1, DmaStep DEF DP!Inv
  <2> QED BY <1>1, <2>1, ServedStep, TestTypeStep, RegisterStep, PlacesStep, FitsStep,
          NumberedStep, LeftOverStep, ProtocolStep DEF Inv
<1> QED BY <1>1, InvSame

LEMMA TypesHold == Inv => TypeOK
<1> SUFFICES ASSUME Inv PROVE TypeOK
  OBVIOUS
<1>1. D!TypeOK
  BY TypeHere DEF Inv, DP!Inv, DP!TypeOK
<1> QED BY <1>1 DEF Inv, Fits, TestTypeOK, RegInv, RegTypeOK, TypeOK

(* Whatever the table and the sizes, no transfer of speedTest goes beyond    *)
(* its buffer, and the register holds a block number with its flag, or one   *)
(* of the two commands (helloworld.c 363-398).                               *)
THEOREM TypeCorrect == Spec => []TypeOK
BY InvInit, InvStep, TypesHold, PTL DEF Spec

LEMMA StandsHold == Inv => CommandStands
<1> SUFFICES ASSUME Inv, up, at \in {"poll", "got"}, stored # <<>>, ~rd_ready
             PROVE  Announces(datablock)
  BY DEF CommandStands
<1>1. CASE op = "dma_transmit_32"
  BY <1>1 DEF Inv, Protocol, Sent
<1>2. CASE op # "dma_transmit_32"
  BY <1>2 DEF Inv, Protocol, Starved, Empty, Fetching, Asked, Answered
<1> QED BY <1>1, <1>2

(* While blocks are loading or being processed the register announces this  *)
(* test's number: neither the read pulse, which overwrites it (fc_hal.c     *)
(* 92-94), nor a program killed and started again gets between.             *)
THEOREM CommandCorrect == Spec => []CommandStands
BY InvInit, InvStep, StandsHold, PTL DEF Spec

LEMMA ReturnsHold == Inv => ReturnsThisTest
<1> SUFFICES ASSUME Inv, pc = "caller", at = "got"
             PROVE  recvd = Answer(Data(datablock))
  BY DEF ReturnsThisTest
<1>1. op = "dma_recv_32"
  BY DEF Inv, Places
<1>2. Fetching
  BY <1>1 DEF Inv, Protocol, Starved
<1>3. Answered /\ recvd = packet
  BY <1>1, <1>2 DEF Fetching, Asked, DP!OwnPacket
<1> QED BY <1>3 DEF Answered

(* What a test fetches is the FPGA's answer to its own words, whole, though *)
(* the program can be killed at every word of a transfer and started again: *)
(* the reset of line 373 clears what it left, or no word is sent at all.    *)
THEOREM ReturnsOwnTest == Spec => []ReturnsThisTest
BY InvInit, InvStep, ReturnsHold, PTL DEF Spec

(* speedTest's own calls of w_instruct announce what they were called with, *)
(* for every table of numbers that BITS bits hold (345-351), its read       *)
(* pulses, resets and restarts in between.                                  *)
THEOREM AnnouncesBlocks == Spec => AnnouncesAsked
<1>1. Inv /\ [Next]_vars =>
        [InstructWrite /\ asked < INSTRUCT => Announces(asked)']_register
  BY WriteAnnounces DEF Inv
<1> QED BY InvInit, InvStep, <1>1, PTL DEF Spec, AnnouncesAsked

LEMMA ServedHold == Inv => TestIsServed
<1> SUFFICES ASSUME Inv PROVE TestIsServed
  OBVIOUS
<1>0. Places /\ testnum \in DOMAIN speed_table /\ Protocol
  BY DEF Inv, TestTypeOK
<1>1. ASSUME pc = "tx_wait"
      PROVE  ioc["MM2S"] \/ left["MM2S"] > 0 \/ halted["MM2S"]
  <2>1. words = Data(datablock)
    BY <1>0, <1>1 DEF Places, SendSteps
  <2>2. words # <<>>
    <3>1. datablock \in Nat \ {0} /\ WORDS_PER_BLOCK \in Nat \ {0}
      BY <1>0, TableFacts, SpeedAssumption
    <3>2. datablock * WORDS_PER_BLOCK # 0
      BY <3>1
    <3>3. Len(words) # 0
      BY <1>0, <2>1, <3>2, DataType
    <3> QED BY <3>3
  <2> QED BY <1>1, <2>2 DEF Inv, DP!TxServed
<1>2. ASSUME pc = "rx_wait", up, ~ioc["S2MM"], ~halted["S2MM"]
      PROVE  Starves \/ (left["S2MM"] > 0 /\ (fpgaOut # <<>> \/ (pulsed /\ rd_ready)))
  <2>1. Starved \/ Fetching
    BY <1>0, <1>2 DEF Places, PulseSteps, DP!RecvSteps, Protocol
  <2>2. CASE Starved
    BY <1>2, <2>2 DEF Starved, Empty, Starves
  <2>3. CASE Fetching
    <3>1. DP!Waiting \/ DP!Moving
      BY <1>2, <2>3 DEF Fetching, DP!OwnPacket, DP!Halted
    <3>2. CASE DP!Waiting
      BY <2>3, <3>2, SpeedAssumption DEF DP!Waiting, Fetching, Asked, Answered
    <3>3. CASE DP!Moving
      BY <3>3 DEF DP!Moving
    <3> QED BY <3>1, <3>2, <3>3
  <2> QED BY <2>1, <2>2, <2>3
<1>3. ASSUME at = "poll", pc = "caller", up
      PROVE  rd_ready \/ Starves \/ (stored = Data(datablock) /\ Announces(datablock))
  <2>1. CASE op = "dma_transmit_32"
    BY <1>0, <1>3, <2>1 DEF Places, Protocol, Sent, SendSteps
  <2>2. CASE op # "dma_transmit_32"
    BY <1>0, <1>3, <2>2 DEF Protocol, Fetching, Starved, Empty, Starves
  <2> QED BY <2>1, <2>2
<1> QED BY <1>1, <1>2, <1>3 DEF TestIsServed

(* Whoever speedTest waits for has what it needs: the poll at 387 finds the *)
(* bit or a FPGA with just the words announced to it, the waits of the      *)
(* transfers a channel under way; but for a stopped channel and a look that *)
(* came too early (377), after any number of kills.                         *)
THEOREM NoVainWait == Spec => []TestIsServed
BY InvInit, InvStep, ServedHold, PTL DEF Spec

LEMMA KeepsOff ==
  ASSUME Inv, [Next]_vars, pc' # pc, pc # "map"
  PROVE  /\ tx_packet' # tx_packet => ~D!Busy("MM2S")
         /\ rx_packet' # rx_packet => ~D!Busy("S2MM")
<1>1. CASE Transfer
  BY <1>1, ServeHere, DP!ServeKeepsOff, Here DEF Transfer, Inv, D!Busy, DP!Busy
<1>2. CASE ~Transfer
  <2>1. UNCHANGED <<tx_packet, rx_packet>>
    BY <1>2, PulseEdgeIs DEF vars, dma, cpu, Next, Program, PulseEdge, ResetFpga, Announce,
                            CopyBit, WriteInstruct, Look, Poll, NextTest, ReadPulse, Killed,
                            Restart, FpgaReset, FpgaTakes, FpgaProcess, FpgaAnswer, FpgaSends,
                            DmaError, D!Call, D!StartReadPulse, D!Dies, D!Restart, D!MM2SWord,
                            D!S2MMWord, D!DmaError, D!cpu, D!mem
  <2> QED BY <2>1
<1> QED BY <1>1, <1>2

(* speedTest's calls never write into a buffer whose channel moves words:   *)
(* AxiDma's NoBufferRace for this caller and this FPGA, which answers with  *)
(* packets of its own.                                                      *)
THEOREM NoRace == Spec => D!NoBufferRace
<1>1. Inv /\ [Next]_vars =>
        [pc' # pc /\ pc # "map" => /\ tx_packet' # tx_packet => ~D!Busy("MM2S")
                                   /\ rx_packet' # rx_packet => ~D!Busy("S2MM")]_(D!vars)
  BY KeepsOff
<1> QED BY InvInit, InvStep, <1>1, PTL DEF Spec, D!NoBufferRace
=============================================================================
