----------------------------- MODULE RingBuffer -----------------------------
(***************************************************************************)
(* The ring buffer of helloworld.c (lines 69-166): an array of bytes, a    *)
(* write index, a read index and a count, all in one struct.               *)
(*                                                                         *)
(* The two copying operations, ring_buffer_write and                       *)
(* ring_buffer_read_batch, let their index come to rest one past the end   *)
(* of the array (BUFFER_SIZE); ring_buffer_read takes its index modulo     *)
(* BUFFER_SIZE after the access.  The model keeps both conventions.        *)
(***************************************************************************)
EXTENDS Integers, Sequences

CONSTANTS BUFFER_SIZE,  \* slots of the array (1024)
          U8,           \* values of a uint8_t (256)
          U16           \* values of a uint16_t (65536)

ASSUME SizeAssumption ==
  /\ BUFFER_SIZE \in Nat \ {0}
  /\ U8 \in Nat \ {0}
  /\ U16 \in Nat
  /\ BUFFER_SIZE < U16

VARIABLES buffer, write_idx, read_idx, count,  \* the members of the struct
          result  \* the caller's view of the last call: its return value and
                  \* the bytes it stored through the out parameter

rb   == <<buffer, write_idx, read_idx, count>>
vars == <<buffer, write_idx, read_idx, count, result>>

Byte  == 0 .. U8 - 1
Slots == 0 .. BUFFER_SIZE - 1

\* The (pointer, length) pairs a caller can pass; <<>> stands for a NULL
\* pointer as well as for length 0, which every operation refuses alike.
Payload == UNION {[1 .. len -> Byte] : len \in 0 .. U16 - 1}

Failed          == [ok |-> FALSE, out |-> <<>>]
Delivered(data) == [ok |-> TRUE, out |-> data]

(***************************************************************************)
(* Memory.  The byte at buffer[i]: index BUFFER_SIZE is outside the array  *)
(* and, in the struct's little-endian layout, is the low byte of           *)
(* write_idx, the member that follows it.                                  *)
(***************************************************************************)
ByteAt(i) == IF i \in Slots THEN buffer[i] ELSE write_idx % U8

memcpy(mem, at, src) ==
  [i \in Slots |-> IF i \in at .. at + Len(src) - 1 THEN src[i - at + 1] ELSE mem[i]]

BytesFrom(at, len) == [k \in 1 .. len |-> ByteAt(at + k - 1)]

Fail == result' = Failed /\ UNCHANGED rb

-----------------------------------------------------------------------------
(* ring_buffer_init leaves the array as the stack had it. *)
ring_buffer_init ==
  /\ read_idx' = 0
  /\ write_idx' = 0
  /\ count' = 0
  /\ UNCHANGED <<buffer, result>>

(* The states a caller starts from: just initialised, over any garbage. *)
Init ==
  /\ buffer \in [Slots -> Byte]
  /\ write_idx = 0
  /\ read_idx = 0
  /\ count = 0
  /\ result = Failed

(* Two ways to get the space check wrong: in 16 bits, and by one. *)
NoRoomIn16Bits(data_length) == (count + data_length) % U16 > BUFFER_SIZE
NoRoomOffByOne(data_length) == count + data_length > BUFFER_SIZE + 1

NoRoom(data_length) == count + data_length > BUFFER_SIZE   \* in int: no wrap

ring_buffer_write(data) ==
  LET data_length  == Len(data)
      space_to_end == BUFFER_SIZE - write_idx
      remaining    == data_length - space_to_end
      Stored ==
        /\ count' = count + data_length
        /\ result' = Delivered(<<>>)
        /\ UNCHANGED read_idx
  IN \/ /\ data_length = 0 \/ NoRoom(data_length)
        /\ Fail
     \/ /\ data_length > 0 /\ ~NoRoom(data_length)
        /\ data_length <= space_to_end
        /\ buffer' = memcpy(buffer, write_idx, data)
        /\ write_idx' = write_idx + data_length
        /\ Stored
     \/ /\ data_length > 0 /\ ~NoRoom(data_length)
        /\ data_length > space_to_end
        /\ buffer' = memcpy(memcpy(buffer, write_idx, SubSeq(data, 1, space_to_end)),
                            0, SubSeq(data, space_to_end + 1, data_length))
        /\ write_idx' = remaining
        /\ Stored

(* Two ways to get the single-byte read wrong: advancing before the access, *)
(* and sending an index at or past the end to 0.                            *)
read_after_advance ==
  /\ count > 0
  /\ result' = Delivered(<<ByteAt((read_idx + 1) % BUFFER_SIZE)>>)
  /\ read_idx' = (read_idx + 1) % BUFFER_SIZE
  /\ count' = count - 1
  /\ UNCHANGED <<buffer, write_idx>>

read_clamped ==
  /\ count > 0
  /\ result' = Delivered(<<ByteAt(read_idx)>>)
  /\ read_idx' = IF read_idx + 1 < BUFFER_SIZE THEN read_idx + 1 ELSE 0
  /\ count' = count - 1
  /\ UNCHANGED <<buffer, write_idx>>

ring_buffer_read ==
  \/ /\ count = 0
     /\ Fail
  \/ /\ count > 0
     /\ result' = Delivered(<<ByteAt(read_idx)>>)
     /\ read_idx' = (read_idx + 1) % BUFFER_SIZE
     /\ count' = count - 1
     /\ UNCHANGED <<buffer, write_idx>>

ring_buffer_read_batch(data_length) ==
  LET data_to_end == BUFFER_SIZE - read_idx
      remaining   == data_length - data_to_end
      Taken ==
        /\ count' = count - data_length
        /\ UNCHANGED <<buffer, write_idx>>
  IN \/ /\ data_length = 0 \/ count < data_length
        /\ Fail
     \/ /\ data_length \in 1 .. count
        /\ data_length <= data_to_end
        /\ result' = Delivered(BytesFrom(read_idx, data_length))
        /\ read_idx' = read_idx + data_length
        /\ Taken
     \/ /\ data_length \in 1 .. count
        /\ data_length > data_to_end
        /\ result' = Delivered(BytesFrom(read_idx, data_to_end) \o BytesFrom(0, remaining))
        /\ read_idx' = remaining
        /\ Taken

-----------------------------------------------------------------------------
Write     == \E data \in Payload : ring_buffer_write(data)
ReadBatch == \E len \in 0 .. U16 - 1 : ring_buffer_read_batch(len)

(* A caller that mixes the two read operations freely. *)
Next == Write \/ ring_buffer_read \/ ReadBatch
Spec == Init /\ [][Next]_vars

(* A caller that never takes a single byte while the read index rests past *)
(* the end of the array.  A caller that only ever uses one of the two read *)
(* operations, as main() does, is such a caller.                           *)
CarefulRead == read_idx \in Slots /\ ring_buffer_read
CarefulNext == Write \/ CarefulRead \/ ReadBatch
CarefulSpec == Init /\ [][CarefulNext]_vars

(* The two kinds of caller that use one read operation throughout. *)
ByteCallerSpec  == Init /\ [][Write \/ ring_buffer_read]_vars
BatchCallerSpec == Init /\ [][Write \/ ReadBatch]_vars

-----------------------------------------------------------------------------
(* The type invariant of the struct: both indices may rest at BUFFER_SIZE. *)
TypeOK ==
  /\ buffer \in [Slots -> Byte]
  /\ write_idx \in 0 .. BUFFER_SIZE
  /\ read_idx \in 0 .. BUFFER_SIZE
  /\ count \in 0 .. BUFFER_SIZE
  /\ result \in [ok : BOOLEAN, out : Seq(Byte)]

(* The redundant fields of the struct agree (lines 72-74): the write index *)
(* is count bytes after the read index, modulo the size.  The third case   *)
(* is the buffer drained byte by byte after a write that ended flush with  *)
(* the end of the array.  Whatever the operations do to each other's index *)
(* convention, the space and data the guards at 91 and 137 rely on is real.*)
IndexCoherence ==
  \/ write_idx = read_idx + count
  \/ write_idx = read_idx + count - BUFFER_SIZE
  \/ write_idx = BUFFER_SIZE /\ read_idx = 0 /\ count = 0

(* The k-th unread byte, and all of them, oldest first. *)
SlotOf(k) ==
  IF read_idx + k - 1 < BUFFER_SIZE THEN read_idx + k - 1
                                    ELSE read_idx + k - 1 - BUFFER_SIZE
Contents == [k \in 1 .. count |-> buffer[SlotOf(k)]]

(* A call only appends to the unread bytes or removes the oldest of them:  *)
(* no write reaches a byte that is still unread, however the indices wrap, *)
(* and a read removes as many bytes as it reports, from the old end.       *)
(* Whether it also hands out the bytes it removes is another question: a   *)
(* single read past the end does not (ReadDeliversOldest).                 *)
KeepsUnread ==
  IF count' >= count
  THEN SubSeq(Contents', 1, count) = Contents
  ELSE Contents' = SubSeq(Contents, count - count' + 1, count)
UnreadIsKept == [][KeepsUnread]_vars

(* A single-byte read that reports success hands out the oldest unread     *)
(* byte (comments at 119 and 125).                                         *)
ReadDeliversOldest ==
  [][ring_buffer_read /\ result'.ok => result'.out = <<Contents[1]>>]_vars

Queue == INSTANCE ByteQueue WITH
           Capacity <- BUFFER_SIZE, MaxLength <- U16 - 1, queue <- Contents

(* Every operation, of whatever caller and after whatever mixture of       *)
(* calls, is an operation of the bounded byte queue, but for a single-byte *)
(* read while the read index rests past the end of the array.              *)
IsByteQueue == Queue!Init /\ [][CarefulNext => [Queue!Next]_(Queue!vars)]_vars
=============================================================================
