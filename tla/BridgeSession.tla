---------------------------- MODULE BridgeSession ----------------------------
(***************************************************************************)
(* One run of main() (helloworld.c 561-726) against one PC: open the       *)
(* server socket, accept the PC, answer its command frame, request LEN     *)
(* bytes of data, put them through the ring buffer and print them.         *)
(*                                                                         *)
(* TCP is a byte stream.  A byte of the PC's stream is named by its        *)
(* position in it, so the data a frame carries is known wherever it turns  *)
(* up; Junk is the byte of memory nobody initialised.  The PC sends two    *)
(* frames: a command (positions 1 .. HEADER) and, once it has the request, *)
(* the data frame, a header and LEN bytes.  recv may return any part of    *)
(* what it was asked for and send may accept any part (comments at 405 and *)
(* 445), and main makes each call once.                                    *)
(***************************************************************************)
EXTENDS Integers, Sequences

CONSTANTS LEN,          \* data bytes requested (255)
          BUFFER_SIZE,  \* slots of the ring buffer (1024)
          U16           \* values of a uint16_t

HEADER == 3   \* sizeof(struct command_struct), packed
Junk   == 0

ASSUME SessionAssumption ==
  /\ LEN \in Nat \ {0}
  /\ BUFFER_SIZE \in Nat \ {0}
  /\ U16 \in Nat
  /\ LEN < U16 /\ BUFFER_SIZE < U16

DataFrame    == HEADER + LEN                    \* total_packet_size
StreamLength == HEADER + DataFrame
PcData       == [i \in 1 .. LEN |-> 2 * HEADER + i]

VARIABLES pc,            \* where main() is
          server,        \* serverSocket: "none" (-1), "created", "listening", "closed"
          client,        \* client: "unset", "none" (-1) or "connected"
          cmdTaken,      \* bytes respond_pc's recv took from the stream
          dataTaken,     \* bytes receive_data's recv took
          responseSent,  \* bytes of the ARM_RESPONSE frame that send accepted
          requestSent,   \* bytes of the ARM_RESQUEST frame that send accepted
          stored,        \* whether receive_data returned a buffer
          printed        \* the bytes main printed, <<>> when none

VARIABLES buffer, write_idx, read_idx, count, result   \* main's RingBuffer rb

VARIABLES peer,          \* the PC's end: "away", "open", "closed", "reset"
          command,       \* the type byte of its command frame
          pcSent         \* bytes of its stream that reached the ARM

ring == <<buffer, write_idx, read_idx, count, result>>
net  == <<cmdTaken, dataTaken, responseSent, requestSent>>
pcvars == <<peer, command, pcSent>>
vars == <<pc, server, client, net, stored, printed, ring, pcvars>>

RB == INSTANCE RingBuffer WITH U8 <- StreamLength + 1

Commands == {"PC_ACTIVATE", "OTHER"}
Stopped  == pc \in {"exit", "killed"}

Init ==
  /\ pc = "dma_tramsmit_init"
  /\ server = "none"
  /\ client = "unset"
  /\ cmdTaken = 0 /\ dataTaken = 0
  /\ responseSent = 0 /\ requestSent = 0
  /\ stored = FALSE
  /\ printed = <<>>
  /\ buffer = [i \in RB!Slots |-> Junk]
  /\ write_idx \in 0 .. BUFFER_SIZE      \* stack garbage, BUFFER_SIZE caps it
  /\ read_idx \in 0 .. BUFFER_SIZE
  /\ count \in 0 .. BUFFER_SIZE
  /\ result = RB!Failed
  /\ peer = "away"
  /\ command \in Commands
  /\ pcSent = 0

-----------------------------------------------------------------------------
(* The socket calls. *)

Available == pcSent - cmdTaken - dataTaken

(* recv(client, ..., want, 0): the numbers it can return, 0 standing for   *)
(* every result <= 0.  It blocks while this set is empty.                  *)
recv(want) ==
  IF client # "connected" THEN {0}
  ELSE {k \in 1 .. want : k <= Available}
         \union {k \in {0} : Available = 0 /\ peer \in {"closed", "reset"}}

(* send(client, frame, size, 0): the bytes it accepts, 0 for an error. *)
send(size) == IF client = "connected" /\ peer # "reset" THEN 1 .. size ELSE {0}

(* A send on a reset connection whose error was already reported raises    *)
(* SIGPIPE; create_command_frame stores through malloc's result unchecked. *)
KilledInSend ==
  /\ pc' = "killed"
  /\ UNCHANGED <<server, client, net, stored, printed, ring, pcvars>>

-----------------------------------------------------------------------------
(* main(), one action per call. *)

(* Open_mem, the two mmaps and the register map: main does not look at the *)
(* outcome, a failed mmap faults in the memset that follows it.            *)
dma_tramsmit_init ==
  /\ pc = "dma_tramsmit_init"
  /\ pc' \in {"socket_init", "killed"}
  /\ UNCHANGED <<server, client, net, stored, printed, ring, pcvars>>

(* Returns early when socket(), bind() or listen() fails; main goes on. *)
socket_init ==
  /\ pc = "socket_init"
  /\ server' \in {"none", "created", "listening"}
  /\ pc' = "socket_connect"
  /\ UNCHANGED <<client, net, stored, printed, ring, pcvars>>

(* accept() blocks for a connection; it fails at once on a socket that is  *)
(* not listening, and may fail on a connection that came up.               *)
socket_connect ==
  /\ pc = "socket_connect"
  /\ \/ /\ server = "listening" /\ peer # "away"
        /\ client' = "connected"
        /\ UNCHANGED server
     \/ /\ server = "listening" => peer # "away"
        /\ client' = "none"
        /\ server' = IF server = "none" THEN "none" ELSE "closed"
  /\ pc' = "ring_buffer_init"
  /\ UNCHANGED <<net, stored, printed, ring, pcvars>>

(* Next to it, the ring left as the stack had it. *)
no_ring_buffer_init ==
  /\ pc = "ring_buffer_init"
  /\ pc' = "respond_recv"
  /\ UNCHANGED <<server, client, net, stored, printed, ring, pcvars>>

ring_buffer_init ==
  /\ pc = "ring_buffer_init"
  /\ RB!ring_buffer_init
  /\ pc' = "respond_recv"
  /\ UNCHANGED <<server, client, net, stored, printed, pcvars>>

(* respond_pc, up to its test of the command type: any byte count above 0  *)
(* is taken for a whole frame.                                             *)
respond_recv ==
  /\ pc = "respond_recv"
  /\ \E k \in recv(HEADER) :
       /\ cmdTaken' = k
       /\ pc' = IF k > 0 /\ command = "PC_ACTIVATE" THEN "respond_send" ELSE "resquest_data"
  /\ UNCHANGED <<server, client, dataTaken, responseSent, requestSent,
                 stored, printed, ring, pcvars>>

respond_send ==
  /\ pc = "respond_send"
  /\ \/ /\ responseSent' \in send(HEADER)
        /\ pc' = "resquest_data"
        /\ UNCHANGED <<server, client, cmdTaken, dataTaken, requestSent,
                       stored, printed, ring, pcvars>>
     \/ KilledInSend

(* Next to it, a request whose size is that of a pointer, as in line 426,   *)
(* and one that is never made.                                             *)
resquest_pointer_size ==
  /\ pc = "resquest_data"
  /\ requestSent' \in send(4)
  /\ pc' = "receive_malloc"
  /\ UNCHANGED <<server, client, cmdTaken, dataTaken, responseSent,
                 stored, printed, ring, pcvars>>

no_resquest_data ==
  /\ pc = "resquest_data"
  /\ pc' = "receive_malloc"
  /\ UNCHANGED <<server, client, net, stored, printed, ring, pcvars>>

resquest_data ==
  /\ pc = "resquest_data"
  /\ \/ /\ requestSent' \in send(HEADER)
        /\ pc' = "receive_malloc"
        /\ UNCHANGED <<server, client, cmdTaken, dataTaken, responseSent,
                       stored, printed, ring, pcvars>>
     \/ KilledInSend

(* The packet buffer after a recv of k bytes, and its data part (line 308): *)
(* what recv did not fill is whatever the heap block held.  Next to it, the *)
(* copy from the start of the packet.                                       *)
DataPartWithHeader(k) == [i \in 1 .. LEN |-> IF i <= k THEN cmdTaken + i ELSE Junk]

DataPart(k) ==
  [i \in 1 .. LEN |-> IF HEADER + i <= k THEN cmdTaken + HEADER + i ELSE Junk]

(* receive_data(&rb, LEN) up to its recv: the packet buffer is allocated, or *)
(* it returns NULL.  Main ignores its result.                               *)
receive_malloc ==
  /\ pc = "receive_malloc"
  /\ pc' \in {"receive_data", "read_batch"}
  /\ UNCHANGED <<server, client, net, stored, printed, ring, pcvars>>

(* The rest of it, which ignores the result of ring_buffer_write. *)
receive_data ==
  /\ pc = "receive_data"
  /\ pc' = "read_batch"
  /\ \E k \in recv(DataFrame) :
       /\ dataTaken' = k
       /\ \/ /\ k > 0
             /\ stored' = TRUE
             /\ RB!ring_buffer_write(DataPart(k))
          \/ UNCHANGED <<stored, ring>>         \* recv or the second malloc failed
  /\ UNCHANGED <<server, client, cmdTaken, responseSent, requestSent, printed, pcvars>>

read_batch ==
  /\ pc = "read_batch"
  /\ pc' = "close"
  /\ \/ /\ RB!ring_buffer_read_batch(LEN)
        /\ printed' = result'.out
     \/ UNCHANGED <<ring, printed>>             \* malloc of read_buffer failed
  /\ UNCHANGED <<server, client, net, stored, pcvars>>

(* close(serverSocket) and return 0, whatever happened. *)
close ==
  /\ pc = "close"
  /\ server' = IF server = "none" THEN "none" ELSE "closed"
  /\ pc' = "exit"
  /\ UNCHANGED <<client, net, stored, printed, ring, pcvars>>

Main ==
  \/ dma_tramsmit_init \/ socket_init \/ socket_connect \/ ring_buffer_init
  \/ respond_recv \/ respond_send \/ resquest_data
  \/ receive_malloc \/ receive_data \/ read_batch \/ close

-----------------------------------------------------------------------------
(* The PC: external to the repository, known by the frames it exchanges. *)

armvars == <<pc, server, client, net, stored, printed, ring>>

PcConnect ==
  /\ peer = "away" /\ server = "listening"
  /\ peer' = "open"
  /\ UNCHANGED <<command, pcSent, armvars>>

PcSendCommand ==
  /\ peer = "open" /\ pcSent = 0
  /\ pcSent' = HEADER
  /\ UNCHANGED <<peer, command, armvars>>

(* It answers the request once it has parsed it: a frame cut short keeps   *)
(* the PC waiting for the rest of it.                                      *)
PcSendData ==
  /\ peer = "open" /\ pcSent = HEADER
  /\ requestSent = HEADER /\ responseSent \in {0, HEADER}
  /\ pcSent' = StreamLength
  /\ UNCHANGED <<peer, command, armvars>>

PcClose ==
  /\ peer = "open"
  /\ peer' = "closed"
  /\ UNCHANGED <<command, pcSent, armvars>>

(* A reset loses what is still in flight. *)
PcReset ==
  /\ peer \in {"open", "closed"}
  /\ peer' = "reset"
  /\ pcSent' \in cmdTaken + dataTaken .. pcSent
  /\ UNCHANGED <<command, armvars>>

Next == Main \/ PcConnect \/ PcSendCommand \/ PcSendData \/ PcClose \/ PcReset

Spec == Init /\ [][Next]_vars

(* main is a running process; the PC that works with it connects, sends    *)
(* its command and answers a request it can read.  It need never close.    *)
FairSpec ==
  /\ Spec
  /\ WF_vars(Main)
  /\ WF_vars(PcConnect)
  /\ WF_vars(PcSendCommand)
  /\ WF_vars(PcSendData)

-----------------------------------------------------------------------------
Calls == {"dma_tramsmit_init", "socket_init", "socket_connect", "ring_buffer_init",
          "respond_recv", "respond_send", "resquest_data", "receive_malloc", "receive_data",
          "read_batch", "close"}

(* Each variable within its range; the bytes taken from the stream were     *)
(* sent, and no more bytes go into a frame than it has (sizes at 224, 239). *)
TypeOK ==
  /\ pc \in Calls \union {"exit", "killed"}
  /\ server \in {"none", "created", "listening", "closed"}
  /\ client \in {"unset", "none", "connected"}
  /\ cmdTaken \in 0 .. HEADER /\ dataTaken \in 0 .. DataFrame
  /\ responseSent \in 0 .. HEADER /\ requestSent \in 0 .. HEADER
  /\ stored \in BOOLEAN
  /\ printed \in Seq(RB!Byte)
  /\ RB!TypeOK
  /\ peer \in {"away", "open", "closed", "reset"}
  /\ pcSent \in cmdTaken + dataTaken .. StreamLength

(* What main prints is the stretch of the PC's stream its second recv took, *)
(* after the header, in order and each byte once; junk stands only where    *)
(* that recv fell short, and nothing of an earlier ring content shows.      *)
(* With two full reads it is exactly the data the PC sent (277-316, 582).   *)
PrintedIsWhatCame ==
  printed # <<>> =>
    /\ \A i \in 1 .. LEN :
         \/ HEADER + i <= dataTaken /\ printed[i] = cmdTaken + HEADER + i
         \/ HEADER + i > dataTaken /\ printed[i] = Junk
    /\ cmdTaken = HEADER /\ dataTaken = DataFrame => printed = PcData

(* main ignores receive_data's result, and the ring makes up for it: the   *)
(* batch read succeeds only if the data was stored, and the ring is then   *)
(* drained (571, 582).                                                     *)
PrintsOnlyStored ==
  /\ printed # <<>> => stored /\ count = 0
  /\ pc \in {"close", "exit"} /\ ~stored => printed = <<>> /\ count = 0

(* main comes to its end with a PC that answers, unless a send it made was *)
(* cut short: then PC and ARM wait for each other (no timeout, 224-289).   *)
SentShort == responseSent \in 1 .. HEADER - 1 \/ requestSent \in 1 .. HEADER - 1
MainStops == <>(Stopped \/ SentShort)

(* While main waits in one of its two recvs (224, 289) with nothing to take *)
(* and the PC still there, the PC is the one to move: it has yet to send    *)
(* its command, or holds the command's answer and a request it can read.    *)
(* So the two never wait for each other, but for a send cut short.          *)
Waits ==
  \/ pc = "respond_recv" /\ recv(HEADER) = {}
  \/ pc = "receive_data" /\ recv(DataFrame) = {}
PcOwes ==
  /\ peer = "open"
  /\ \/ pcSent = 0
     \/ pcSent = HEADER /\ requestSent = HEADER /\ responseSent \in {0, HEADER}
WaitsAreAnswered == Waits => PcOwes \/ SentShort

-----------------------------------------------------------------------------
(* What the repository says of main, and the code does not do. *)

(* A packet received whole is "the data part copied to the new buffer" and *)
(* "the data read from the ring buffer" (comments at 307 and 581): without *)
(* the warning of line 296, what main prints is the data the PC sent.      *)
WholePacketIsPcData == printed # <<>> /\ dataTaken = DataFrame => printed = PcData
=============================================================================
