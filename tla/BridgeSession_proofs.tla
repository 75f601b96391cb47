------------------------ MODULE BridgeSession_proofs ------------------------
(***************************************************************************)
(* main() prints what its second recv took and nothing else, for every     *)
(* number of data bytes requested and every size of the ring buffer, the   *)
(* ones that do not fit together included.                                 *)
(***************************************************************************)
EXTENDS BridgeSession, TLAPS

(* Where main is, by what it has done. *)
Raw     == {"dma_tramsmit_init", "socket_init", "socket_connect", "ring_buffer_init"}
Talking == {"respond_recv", "respond_send", "resquest_data", "receive_malloc", "receive_data"}

(* What was received, as the ring holds it from its first slot on. *)
RingHolds(data) ==
  /\ LEN <= BUFFER_SIZE
  /\ count = LEN /\ write_idx = LEN
  /\ \A i \in 1 .. LEN : buffer[i - 1] = data[i]

(* The numbers recv returned, with what is still to be read. *)
StreamInv ==
  /\ cmdTaken \in 0 .. HEADER /\ dataTaken \in 0 .. DataFrame
  /\ pcSent \in cmdTaken + dataTaken .. StreamLength
  /\ pc \in Raw \union {"respond_recv"} => cmdTaken = 0
  /\ pc \in Raw \union Talking => dataTaken = 0

(* From receive to print: the bytes are in the ring, then in printed.  The  *)
(* ring is empty whenever they are in neither place.                        *)
DataInv ==
  /\ pc \in Raw \union Talking => ~stored
  /\ pc \in Raw \union Talking \union {"read_batch", "killed"} => printed = <<>>
  /\ pc \in Talking \union {"read_batch"} => read_idx = 0
  /\ pc \in Talking => count = 0 /\ write_idx = 0
  /\ pc = "read_batch" =>
       \/ count = 0
       \/ stored /\ RingHolds(DataPart(dataTaken))
  /\ pc \in {"close", "exit"} =>
       \/ printed = <<>> /\ (stored \/ count = 0)
       \/ stored /\ count = 0 /\ printed = DataPart(dataTaken)

StateTypes ==
  /\ pc \in Calls \union {"exit", "killed"}
  /\ server \in {"none", "created", "listening", "closed"}
  /\ client \in {"unset", "none", "connected"}
  /\ responseSent \in 0 .. HEADER /\ requestSent \in 0 .. HEADER
  /\ stored \in BOOLEAN
  /\ peer \in {"away", "open", "closed", "reset"}

RingTypes == RB!TypeOK /\ printed \in Seq(RB!Byte)

IInv == StateTypes /\ StreamInv /\ DataInv /\ RingTypes

LEMMA Sizes ==
  /\ LEN \in Nat /\ LEN > 0 /\ BUFFER_SIZE \in Nat /\ BUFFER_SIZE > 0
  /\ HEADER = 3 /\ DataFrame = 3 + LEN /\ StreamLength = 6 + LEN
BY SessionAssumption DEF HEADER, DataFrame, StreamLength

LEMMA BytesAre == RB!Byte = 0 .. StreamLength
BY Sizes DEF RB!Byte

LEMMA DataPartType ==
  ASSUME StreamInv, NEW k \in 0 .. DataFrame
  PROVE  DataPart(k) \in Seq(RB!Byte) /\ Len(DataPart(k)) = LEN
<1>1. \A i \in 1 .. LEN :
        (IF HEADER + i <= k THEN cmdTaken + HEADER + i ELSE Junk) \in 0 .. StreamLength
  BY Sizes DEF StreamInv, Junk
<1> QED BY <1>1, Sizes, BytesAre DEF DataPart

LEMMA FailedType == RB!Failed \in [ok : BOOLEAN, out : Seq(RB!Byte)]
BY DEF RB!Failed

LEMMA DeliveredType ==
  ASSUME NEW data \in Seq(RB!Byte)
  PROVE  RB!Delivered(data) \in [ok : BOOLEAN, out : Seq(RB!Byte)]
BY DEF RB!Delivered

LEMMA InitInv == Init => IInv
<1> SUFFICES ASSUME Init PROVE IInv
  OBVIOUS
<1>1. StateTypes
  <2>1. responseSent \in 0 .. HEADER /\ requestSent \in 0 .. HEADER
    BY Sizes DEF Init
  <2>2. pc = "dma_tramsmit_init" /\ server = "none" /\ client = "unset" /\ stored = FALSE
        /\ peer = "away"
    BY DEF Init
  <2> QED BY <2>1, <2>2 DEF StateTypes, Calls
<1>5. DataInv
  <2>1. pc = "dma_tramsmit_init" /\ stored = FALSE /\ printed = <<>>
    BY DEF Init
  <2> QED BY <2>1 DEF DataInv, Raw, Talking
<1>4. StreamInv
  BY Sizes DEF Init, StreamInv, Raw, Talking
<1>2. buffer \in [RB!Slots -> RB!Byte]
  BY Sizes, BytesAre DEF Init, Junk
<1>3. RingTypes
  BY <1>2, FailedType DEF Init, RingTypes, RB!TypeOK
<1> QED BY <1>1, <1>3, <1>4, <1>5 DEF IInv

(* A step of the ring's caller that leaves ring and output alone. *)
LEMMA RingSame == RingTypes /\ UNCHANGED <<ring, printed>> => RingTypes'
BY DEF RingTypes, ring, RB!TypeOK

-----------------------------------------------------------------------------
(* main up to its second recv. *)

LEMMA SetUpStep ==
  ASSUME IInv, dma_tramsmit_init \/ socket_init \/ socket_connect \/ ring_buffer_init
  PROVE  IInv'
<1> USE DEF IInv
<1>1. StateTypes'
  BY DEF StateTypes, dma_tramsmit_init, socket_init, socket_connect, ring_buffer_init, net,
     pcvars, Calls
<1>2. StreamInv'
  BY DEF StreamInv, dma_tramsmit_init, socket_init, socket_connect, ring_buffer_init, net,
     pcvars, Raw, Talking
<1>3. DataInv'
  BY DEF DataInv, dma_tramsmit_init, socket_init, socket_connect, ring_buffer_init, ring,
     RB!ring_buffer_init, Raw, Talking
<1>4. RingTypes'
  <2>1. CASE ring_buffer_init
    BY <2>1, Sizes DEF ring_buffer_init, RB!ring_buffer_init, RingTypes, RB!TypeOK
  <2>2. CASE dma_tramsmit_init \/ socket_init \/ socket_connect
    BY <2>2, RingSame DEF dma_tramsmit_init, socket_init, socket_connect
  <2> QED BY <2>1, <2>2
<1> QED BY <1>1, <1>2, <1>3, <1>4

LEMMA RecvBounds ==
  ASSUME StreamInv, NEW want \in Nat, NEW k \in recv(want)
  PROVE  k \in 0 .. want /\ (k = 0 \/ k <= pcSent - cmdTaken - dataTaken)
BY DEF recv, Available

LEMMA TalkStep ==
  ASSUME IInv, respond_recv \/ respond_send \/ resquest_data \/ receive_malloc
  PROVE  IInv'
<1> USE DEF IInv
<1>1. pc \in Talking /\ pc # "receive_data"
      /\ pc' \in (Talking \ {"respond_recv"}) \union {"read_batch", "killed"}
  BY DEF respond_recv, respond_send, resquest_data, receive_malloc, KilledInSend, Talking
<1>2. UNCHANGED <<server, client, dataTaken, stored, printed, ring, pcvars>>
  BY DEF respond_recv, respond_send, resquest_data, receive_malloc, KilledInSend, net
<1>3. StateTypes'
  <2>1. \A size \in {HEADER} : send(size) \subseteq 0 .. HEADER
    BY Sizes DEF send
  <2>2. responseSent' \in 0 .. HEADER /\ requestSent' \in 0 .. HEADER
    BY <2>1 DEF StateTypes, respond_recv, respond_send, resquest_data, receive_malloc,
       KilledInSend, net
  <2> QED BY <1>1, <1>2, <2>2 DEF StateTypes, pcvars, Talking, Calls
<1>4. StreamInv'
  <2>1. CASE respond_recv
    <3>1. PICK k \in recv(HEADER) : cmdTaken' = k
      BY <2>1 DEF respond_recv
    <3>2. k \in 0 .. HEADER /\ (k = 0 \/ k <= pcSent - cmdTaken - dataTaken)
      BY <3>1, Sizes, RecvBounds
    <3>3. pc = "respond_recv"
      BY <2>1 DEF respond_recv
    <3> QED BY <1>1, <1>2, <3>1, <3>2, <3>3, Sizes DEF StreamInv, pcvars, Raw, Talking
  <2>2. CASE ~respond_recv
    <3>1. cmdTaken' = cmdTaken
      BY <2>2 DEF respond_send, resquest_data, receive_malloc, KilledInSend, net
    <3> QED BY <1>1, <1>2, <3>1 DEF StreamInv, pcvars, Raw, Talking
  <2> QED BY <2>1, <2>2
<1>5. DataInv'
  BY <1>1, <1>2 DEF DataInv, ring, Raw, Talking
<1>6. RingTypes'
  BY <1>2, RingSame
<1> QED BY <1>3, <1>4, <1>5, <1>6

-----------------------------------------------------------------------------
(* The data: into the ring, out of it, and the end. *)

(* A write of LEN bytes into the ring as ring_buffer_init left it. *)
LEMMA WriteFresh ==
  ASSUME RB!TypeOK, read_idx = 0, write_idx = 0, count = 0,
         NEW data \in Seq(RB!Byte), Len(data) = LEN, RB!ring_buffer_write(data)
  PROVE  /\ RB!TypeOK' /\ read_idx' = 0
         /\ \/ count' = 0
            \/ /\ LEN <= BUFFER_SIZE /\ count' = LEN /\ write_idx' = LEN
               /\ \A i \in 1 .. LEN : buffer'[i - 1] = data[i]
<1>1. CASE BUFFER_SIZE < LEN
  <2>1. RB!Fail
    BY <1>1, Sizes DEF RB!ring_buffer_write, RB!NoRoom
  <2> QED BY <2>1, FailedType DEF RB!Fail, RB!rb, RB!TypeOK
<1>2. CASE LEN <= BUFFER_SIZE
  <2>1. /\ buffer' = RB!memcpy(buffer, write_idx, data)
        /\ write_idx' = write_idx + LEN /\ count' = count + LEN
        /\ result' = RB!Delivered(<<>>) /\ read_idx' = read_idx
    BY <1>2, Sizes DEF RB!ring_buffer_write, RB!NoRoom
  <2>2. \A i \in 1 .. LEN : data[i] \in RB!Byte
    OBVIOUS
  <2>3. buffer' = [i \in RB!Slots |-> IF i \in 0 .. LEN - 1 THEN data[i + 1] ELSE buffer[i]]
    BY <2>1, Sizes DEF RB!memcpy
  <2>4. \A i \in RB!Slots : buffer'[i] \in RB!Byte
    <3> TAKE i \in RB!Slots
    <3>1. CASE i \in 0 .. LEN - 1
      <4>1. i + 1 \in 1 .. LEN
        BY <3>1, Sizes
      <4> QED BY <2>2, <2>3, <3>1, <4>1
    <3>2. CASE i \notin 0 .. LEN - 1
      BY <2>3, <3>2 DEF RB!TypeOK
    <3> QED BY <3>1, <3>2
  <2>5. buffer' \in [RB!Slots -> RB!Byte]
    BY <2>3, <2>4
  <2>6. ASSUME NEW i \in 1 .. LEN PROVE buffer'[i - 1] = data[i]
    <3>1. i - 1 \in RB!Slots /\ i - 1 \in 0 .. LEN - 1 /\ i - 1 + 1 = i
      BY <1>2, Sizes DEF RB!Slots
    <3> QED BY <2>3, <3>1
  <2>7. result' \in [ok : BOOLEAN, out : Seq(RB!Byte)]
    <3>1. <<>> \in Seq(RB!Byte)
      OBVIOUS
    <3> QED BY <2>1, <3>1, DeliveredType
  <2>8. write_idx' = LEN /\ count' = LEN /\ read_idx' = 0
    BY <2>1, Sizes
  <2> QED BY <1>2, <2>5, <2>6, <2>7, <2>8, Sizes DEF RB!TypeOK
<1> QED BY <1>1, <1>2, Sizes

LEMMA ReceiveStep == IInv /\ receive_data => IInv'
<1> SUFFICES ASSUME IInv, receive_data PROVE IInv'
  OBVIOUS
<1> USE DEF IInv
<1>1. PICK k \in recv(DataFrame) :
        /\ dataTaken' = k
        /\ \/ k > 0 /\ stored' = TRUE /\ RB!ring_buffer_write(DataPart(k))
           \/ UNCHANGED <<stored, ring>>
  BY DEF receive_data
<1>2. /\ pc = "receive_data" /\ pc' = "read_batch"
      /\ UNCHANGED <<server, client, cmdTaken, responseSent, requestSent, printed, peer, pcSent>>
  BY DEF receive_data, pcvars
<1>3. k \in 0 .. DataFrame /\ (k = 0 \/ k <= pcSent - cmdTaken - dataTaken)
  BY <1>1, Sizes, RecvBounds
<1>4. /\ ~stored /\ read_idx = 0 /\ count = 0 /\ write_idx = 0 /\ printed = <<>> /\ dataTaken = 0
      /\ RB!TypeOK
  BY <1>2 DEF DataInv, StreamInv, RingTypes, Talking
<1>5. StreamInv'
  BY <1>1, <1>2, <1>3, <1>4, Sizes DEF StreamInv, Raw, Talking
<1>6. StateTypes'
  BY <1>1, <1>2 DEF StateTypes, Calls
<1>7. CASE k > 0 /\ stored' = TRUE /\ RB!ring_buffer_write(DataPart(k))
  <2>1. DataPart(k) \in Seq(RB!Byte) /\ Len(DataPart(k)) = LEN
    BY <1>3, DataPartType
  <2>2. /\ RB!TypeOK' /\ read_idx' = 0
        /\ \/ count' = 0
           \/ /\ LEN <= BUFFER_SIZE /\ count' = LEN /\ write_idx' = LEN
              /\ \A i \in 1 .. LEN : buffer'[i - 1] = DataPart(k)[i]
    BY <1>4, <1>7, <2>1, WriteFresh
  <2>3. DataPart(dataTaken)' = DataPart(k)
    BY <1>1, <1>2 DEF DataPart
  <2>4. count' = 0 \/ (stored' /\ RingHolds(DataPart(dataTaken))')
    <3>1. CASE count' = 0
      BY <3>1
    <3>2. CASE count' # 0
      BY <1>7, <2>2, <2>3, <3>2 DEF RingHolds
    <3> QED BY <3>1, <3>2
  <2>5. DataInv'
    BY <1>2, <1>4, <2>2, <2>4 DEF DataInv, Raw, Talking
  <2>6. RingTypes'
    BY <1>2, <2>2 DEF RingTypes
  <2> QED BY <1>5, <1>6, <2>5, <2>6
<1>8. CASE UNCHANGED <<stored, ring>>
  <2>1. RingTypes'
    BY <1>2, <1>8, RingSame
  <2>2. DataInv'
    BY <1>2, <1>4, <1>8 DEF DataInv, ring, Raw, Talking
  <2> QED BY <1>5, <1>6, <2>1, <2>2
<1> QED BY <1>1, <1>7, <1>8

(* A batch read of LEN bytes from the first slot on. *)
LEMMA ReadFirst ==
  ASSUME RB!TypeOK, read_idx = 0, count = 0 \/ (count = LEN /\ LEN <= BUFFER_SIZE),
         RB!ring_buffer_read_batch(LEN)
  PROVE  /\ RB!TypeOK' /\ count' = 0 /\ result'.out \in Seq(RB!Byte)
         /\ \/ count = 0 /\ result'.out = <<>>
            \/ count # 0 /\ result'.out = [i \in 1 .. LEN |-> buffer[i - 1]]
<1>1. CASE count = 0
  <2>1. RB!Fail
    BY <1>1, Sizes DEF RB!ring_buffer_read_batch
  <2> QED BY <1>1, <2>1, FailedType DEF RB!Fail, RB!rb, RB!TypeOK, RB!Failed
<1>2. CASE count = LEN /\ LEN <= BUFFER_SIZE
  <2>1. /\ result' = RB!Delivered(RB!BytesFrom(0, LEN))
        /\ read_idx' = LEN /\ count' = 0 /\ buffer' = buffer /\ write_idx' = write_idx
    BY <1>2, Sizes DEF RB!ring_buffer_read_batch
  <2>2. \A i \in 1 .. LEN : i - 1 \in RB!Slots /\ 0 + i - 1 = i - 1
    BY <1>2, Sizes DEF RB!Slots
  <2>3. RB!BytesFrom(0, LEN) = [i \in 1 .. LEN |-> buffer[i - 1]]
    BY <2>2 DEF RB!BytesFrom, RB!ByteAt
  <2>4. \A i \in 1 .. LEN : buffer[i - 1] \in RB!Byte
    BY <2>2 DEF RB!TypeOK
  <2>5. RB!BytesFrom(0, LEN) \in Seq(RB!Byte)
    BY <2>3, <2>4, Sizes
  <2>6. result' \in [ok : BOOLEAN, out : Seq(RB!Byte)] /\ result'.out = RB!BytesFrom(0, LEN)
    BY <2>1, <2>5, DeliveredType DEF RB!Delivered
  <2> QED BY <1>2, <2>1, <2>3, <2>5, <2>6, Sizes DEF RB!TypeOK
<1> QED BY <1>1, <1>2

LEMMA ReadStep == IInv /\ read_batch => IInv'
<1> SUFFICES ASSUME IInv, read_batch PROVE IInv'
  OBVIOUS
<1> USE DEF IInv
<1>1. /\ pc = "read_batch" /\ pc' = "close"
      /\ UNCHANGED <<server, client, net, stored, peer, pcSent>>
  BY DEF read_batch, pcvars
<1>2. /\ printed = <<>> /\ read_idx = 0 /\ RB!TypeOK
      /\ count = 0 \/ (stored /\ RingHolds(DataPart(dataTaken)))
  BY <1>1 DEF DataInv, RingTypes
<1>3. StateTypes' /\ StreamInv'
  BY <1>1 DEF StateTypes, StreamInv, net, Calls, Raw, Talking
<1>4. CASE RB!ring_buffer_read_batch(LEN) /\ printed' = result'.out
  <2>1. count = 0 \/ (count = LEN /\ LEN <= BUFFER_SIZE)
    BY <1>2 DEF RingHolds
  <2>2. /\ RB!TypeOK' /\ count' = 0 /\ printed' \in Seq(RB!Byte)
        /\ \/ count = 0 /\ printed' = <<>>
           \/ count # 0 /\ printed' = [i \in 1 .. LEN |-> buffer[i - 1]]
    BY <1>2, <1>4, <2>1, ReadFirst
  <2>3. DataPart(dataTaken)' = DataPart(dataTaken)
    BY <1>1 DEF DataPart, net
  <2>4. count # 0 => stored' /\ printed' = DataPart(dataTaken)
    <3> SUFFICES ASSUME count # 0 PROVE stored' /\ printed' = DataPart(dataTaken)
      OBVIOUS
    <3>1. stored' /\ \A i \in 1 .. LEN : buffer[i - 1] = DataPart(dataTaken)[i]
      BY <1>1, <1>2 DEF RingHolds
    <3>2. DataPart(dataTaken) = [i \in 1 .. LEN |-> DataPart(dataTaken)[i]]
      BY DEF DataPart
    <3>3. printed' = [i \in 1 .. LEN |-> buffer[i - 1]]
      BY <2>2
    <3> HIDE DEF IInv
    <3>4. [i \in 1 .. LEN |-> buffer[i - 1]] = [i \in 1 .. LEN |-> DataPart(dataTaken)[i]]
      BY <3>1
    <3> QED BY <3>1, <3>2, <3>3, <3>4
  <2>5. DataInv'
    BY <1>1, <2>2, <2>3, <2>4 DEF DataInv, Raw, Talking
  <2> QED BY <1>3, <2>2, <2>5 DEF RingTypes
<1>5. CASE UNCHANGED <<ring, printed>>
  <2>1. count = 0 \/ stored
    BY <1>2
  <2>2. DataInv'
    BY <1>1, <1>2, <1>5, <2>1 DEF DataInv, ring, Raw, Talking
  <2> QED BY <1>3, <1>5, <2>2, RingSame
<1> QED BY <1>4, <1>5 DEF read_batch

LEMMA CloseStep == IInv /\ close => IInv'
<1> SUFFICES ASSUME IInv, close PROVE IInv'
  OBVIOUS
<1> USE DEF IInv
<1>1. /\ pc = "close" /\ pc' = "exit" /\ server' \in {"none", "closed"}
      /\ UNCHANGED <<client, net, stored, printed, ring, pcvars>>
  BY DEF close
<1>2. DataPart(dataTaken)' = DataPart(dataTaken)
  BY <1>1 DEF DataPart, net
<1>3. DataInv'
  BY <1>1, <1>2 DEF DataInv, ring, Raw, Talking
<1>4. StateTypes' /\ StreamInv'
  BY <1>1 DEF StateTypes, StreamInv, net, pcvars, Raw, Talking
<1> QED BY <1>1, <1>3, <1>4, RingSame

LEMMA PcStep ==
  ASSUME IInv, PcConnect \/ PcSendCommand \/ PcSendData \/ PcClose \/ PcReset \/ UNCHANGED vars
  PROVE  IInv'
<1> USE DEF IInv
<1>1. UNCHANGED armvars
  BY DEF PcConnect, PcSendCommand, PcSendData, PcClose, PcReset, vars, armvars
<1>2. DataPart(dataTaken)' = DataPart(dataTaken)
  BY <1>1 DEF DataPart, armvars, net
<1>3. DataInv'
  BY <1>1, <1>2 DEF DataInv, RingHolds, armvars, ring, net
<1>4. pcSent' \in cmdTaken + dataTaken .. StreamLength /\ peer' \in {"away", "open", "closed", "reset"}
  BY Sizes DEF StreamInv, StateTypes, PcConnect, PcSendCommand, PcSendData, PcClose, PcReset,
     vars, pcvars
<1>5. StateTypes' /\ StreamInv'
  BY <1>1, <1>4 DEF StateTypes, StreamInv, armvars, net
<1>6. RingTypes'
  BY <1>1, RingSame DEF armvars
<1> QED BY <1>3, <1>5, <1>6

LEMMA StepInv == IInv /\ [Next]_vars => IInv'
BY SetUpStep, TalkStep, ReceiveStep, ReadStep, CloseStep, PcStep DEF Next, Main

LEMMA Always == Spec => []IInv
BY InitInv, StepInv, PTL DEF Spec

-----------------------------------------------------------------------------
(* What main's frames hold and what it prints are of the sizes the code     *)
(* gives them, and it never takes more of the stream than was sent (224,    *)
(* 239, 289).                                                               *)
THEOREM TypeCorrect == Spec => []TypeOK
<1>1. IInv => TypeOK
  BY DEF IInv, StateTypes, StreamInv, RingTypes, TypeOK
<1> QED BY Always, <1>1, PTL

LEMMA InvPrinted == IInv => PrintedIsWhatCame
<1> SUFFICES ASSUME IInv, printed # <<>>
             PROVE  /\ \A i \in 1 .. LEN :
                         \/ HEADER + i <= dataTaken /\ printed[i] = cmdTaken + HEADER + i
                         \/ HEADER + i > dataTaken /\ printed[i] = Junk
                    /\ cmdTaken = HEADER /\ dataTaken = DataFrame => printed = PcData
  BY DEF PrintedIsWhatCame
<1>1. printed = DataPart(dataTaken)
  BY DEF IInv, DataInv, StateTypes, Calls, Raw, Talking
<1>2. dataTaken \in Nat
  BY Sizes DEF IInv, StreamInv
<1>3. ASSUME NEW i \in 1 .. LEN
      PROVE  \/ HEADER + i <= dataTaken /\ printed[i] = cmdTaken + HEADER + i
             \/ HEADER + i > dataTaken /\ printed[i] = Junk
  BY <1>1, <1>2, Sizes DEF DataPart
<1>4. ASSUME cmdTaken = HEADER, dataTaken = DataFrame PROVE printed = PcData
  BY <1>1, <1>4, Sizes DEF DataPart, PcData
<1> QED BY <1>3, <1>4

(* What main prints is the stretch of the PC's stream that its second recv  *)
(* took, shifted and padded exactly as the recvs fell short, for every      *)
(* length and ring size (277-316, 571-582).                                 *)
THEOREM PrintsWhatCame == Spec => []PrintedIsWhatCame
BY Always, InvPrinted, PTL

(* Nothing is printed that receive_data did not store, and nothing stays in *)
(* the ring when it stored nothing: main need not look at its result (571). *)
THEOREM PrintsStored == Spec => []PrintsOnlyStored
<1>1. IInv => PrintsOnlyStored
  BY DEF IInv, DataInv, StateTypes, Calls, Raw, Talking, PrintsOnlyStored
<1> QED BY Always, <1>1, PTL

-----------------------------------------------------------------------------
(* The two reads main blocks in. *)

(* What main and the PC have exchanged by then.  An open PC has sent whole  *)
(* frames; a recv that took nothing, or a send that sent nothing, means     *)
(* that the connection is no longer open.                                   *)
WaitInv ==
  /\ client = "connected" => peer # "away"
  /\ peer = "away" => pcSent = 0
  /\ peer = "open" => pcSent \in {0, HEADER, StreamLength}
  /\ client = "connected" /\ peer = "open" =>
       /\ pc \in Talking \ {"respond_recv"} => cmdTaken > 0
       /\ pc \in {"receive_malloc", "receive_data"} => requestSent > 0

LEMMA WaitStart == Init => WaitInv
BY DEF Init, WaitInv

LEMMA WaitSetUp ==
  ASSUME WaitInv, dma_tramsmit_init \/ socket_init \/ socket_connect \/ ring_buffer_init
  PROVE  WaitInv'
BY DEF WaitInv, dma_tramsmit_init, socket_init, socket_connect, ring_buffer_init, net, pcvars,
   Talking

(* On an open connection recv returns 1 byte at least, and send sends one. *)
LEMMA OpenRecv ==
  ASSUME client = "connected", peer = "open", NEW want \in Nat, NEW k \in recv(want)
  PROVE  k > 0
BY DEF recv

LEMMA OpenSend ==
  ASSUME client = "connected", peer = "open", NEW k \in send(HEADER)
  PROVE  k > 0
BY DEF send

LEMMA WaitTalk ==
  ASSUME WaitInv,
         respond_recv \/ respond_send \/ resquest_data \/ receive_malloc
  PROVE  WaitInv'
<1>1. UNCHANGED <<client, peer, pcSent>>
  BY DEF respond_recv, respond_send, resquest_data, receive_malloc, KilledInSend, pcvars
<1>2. SUFFICES ASSUME client = "connected", peer = "open"
               PROVE  /\ pc' \in Talking \ {"respond_recv"} => cmdTaken' > 0
                      /\ pc' \in {"receive_malloc", "receive_data"} => requestSent' > 0
  BY <1>1 DEF WaitInv
<1>3. CASE respond_recv
  <2>1. PICK k \in recv(HEADER) : cmdTaken' = k
    BY <1>3 DEF respond_recv
  <2>2. k > 0
    BY <1>2, <2>1, Sizes, OpenRecv
  <2> QED BY <1>3, <2>1, <2>2 DEF respond_recv
<1>4. CASE respond_send
  BY <1>2, <1>4 DEF respond_send, KilledInSend, WaitInv, Talking
<1>5. CASE resquest_data
  BY <1>2, <1>5, OpenSend DEF resquest_data, KilledInSend, WaitInv, Talking
<1>6. CASE receive_malloc
  BY <1>2, <1>6 DEF receive_malloc, net, WaitInv, Talking
<1> QED BY <1>3, <1>4, <1>5, <1>6

LEMMA WaitEnd ==
  ASSUME WaitInv, receive_data \/ read_batch \/ close
  PROVE  WaitInv'
<1>1. pc' \notin Talking /\ UNCHANGED <<client, peer, pcSent>>
  BY DEF receive_data, read_batch, close, pcvars, Talking
<1> QED BY <1>1 DEF WaitInv, Talking

LEMMA WaitPc ==
  ASSUME WaitInv, PcConnect \/ PcSendCommand \/ PcSendData \/ PcClose \/ PcReset
  PROVE  WaitInv'
<1>1. UNCHANGED <<pc, client, cmdTaken, requestSent>>
  BY DEF PcConnect, PcSendCommand, PcSendData, PcClose, PcReset, armvars, net
<1>2. CASE PcConnect
  BY <1>1, <1>2 DEF PcConnect, WaitInv
<1>3. CASE PcSendCommand \/ PcSendData \/ PcClose \/ PcReset
  BY <1>1, <1>3 DEF PcSendCommand, PcSendData, PcClose, PcReset, WaitInv
<1> QED BY <1>2, <1>3

LEMMA WaitStep == WaitInv /\ [Next]_vars => WaitInv'
<1>1. WaitInv /\ UNCHANGED vars => WaitInv'
  BY DEF WaitInv, vars, net, pcvars
<1> QED BY <1>1, WaitSetUp, WaitTalk, WaitEnd, WaitPc DEF Next, Main

(* recv blocks only where nothing has arrived that was not taken. *)
LEMMA Blocked ==
  ASSUME IInv, NEW want \in Nat \ {0}, recv(want) = {}
  PROVE  client = "connected" /\ pcSent = cmdTaken + dataTaken /\ peer \in {"away", "open"}
<1>1. client = "connected"
  BY DEF recv
<1>2. Available \in Nat
  BY DEF IInv, StreamInv, Available, HEADER
<1>3. 1 \notin {k \in 1 .. want : k <= Available}
        /\ 0 \notin {k \in {0} : Available = 0 /\ peer \in {"closed", "reset"}}
  BY <1>1 DEF recv
<1>4. Available = 0
  BY <1>2, <1>3
<1>5. peer \in {"away", "open"}
  BY <1>3, <1>4 DEF IInv, StateTypes
<1> QED BY <1>1, <1>4, <1>5 DEF Available, IInv, StreamInv

LEMMA WaitHolds ==
  ASSUME IInv, WaitInv
  PROVE  WaitsAreAnswered
<1> SUFFICES ASSUME Waits, ~SentShort PROVE PcOwes
  BY DEF WaitsAreAnswered
<1>1. /\ pc \in {"respond_recv", "receive_data"}
      /\ client = "connected" /\ pcSent = cmdTaken + dataTaken /\ peer \in {"away", "open"}
  BY Blocked, Sizes DEF Waits
<1>2. peer = "open" /\ dataTaken = 0 /\ pcSent = cmdTaken /\ cmdTaken <= HEADER
  BY <1>1, Sizes DEF WaitInv, IInv, StreamInv, Talking
<1>3. CASE pc = "respond_recv"
  BY <1>2, <1>3 DEF IInv, StreamInv, PcOwes
<1>4. CASE pc = "receive_data"
  <2>1. pcSent = HEADER
    BY <1>1, <1>2, <1>4, Sizes DEF WaitInv, Talking
  <2>2. requestSent > 0
    BY <1>1, <1>2, <1>4 DEF WaitInv
  <2>3. requestSent = HEADER /\ responseSent \in {0, HEADER}
    BY <2>2, Sizes DEF SentShort, IInv, StateTypes
  <2> QED BY <1>2, <2>1, <2>3 DEF PcOwes
<1> QED BY <1>1, <1>3, <1>4

(* Whenever main waits for bytes with the PC still there, the PC has what   *)
(* it needs to send them, unless a send of main's was cut short: with the   *)
(* fairness of both sides this is why main ends (224, 252, 262, 289).       *)
THEOREM NoMutualWait == Spec => []WaitsAreAnswered
<1>1. Spec => []WaitInv
  BY WaitStart, WaitStep, PTL DEF Spec
<1> QED BY <1>1, Always, WaitHolds, PTL
=============================================================================
