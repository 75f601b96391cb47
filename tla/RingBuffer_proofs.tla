-------------------------- MODULE RingBuffer_proofs --------------------------
(***************************************************************************)
(* Proofs about the ring buffer, for every size and every integer width.   *)
(***************************************************************************)
EXTENDS RingBuffer, SequenceTheorems, TLAPS

-----------------------------------------------------------------------------
(* Lemmas about the helpers. *)

(* A function on 1 .. n is a sequence of length n. *)
LEMMA FunctionIsSeq ==
  ASSUME NEW n \in Nat, NEW S, NEW f \in [1 .. n -> S]
  PROVE  f \in Seq(S) /\ Len(f) = n
BY SeqDef

(* What a caller passes is a sequence of bytes. *)
LEMMA PayloadIsSeq ==
  ASSUME NEW data \in Payload
  PROVE  data \in Seq(Byte) /\ Len(data) \in Nat /\ (data = <<>> <=> Len(data) = 0)
<1>1. PICK n \in 0 .. U16 - 1 : data \in [1 .. n -> Byte]
  BY DEF Payload
<1>2. n \in Nat
  BY SizeAssumption
<1>3. data \in Seq(Byte) /\ Len(data) = n
  BY <1>1, <1>2, FunctionIsSeq
<1> QED
  BY <1>2, <1>3, EmptySeq

(* The cyclic step of line 125, for an index that may rest past the end. *)
LEMMA CyclicStep ==
  ASSUME NEW i \in 0 .. BUFFER_SIZE
  PROVE  /\ i + 1 < BUFFER_SIZE => (i + 1) % BUFFER_SIZE = i + 1
         /\ i + 1 = BUFFER_SIZE => (i + 1) % BUFFER_SIZE = 0
         /\ i = BUFFER_SIZE /\ BUFFER_SIZE > 1 => (i + 1) % BUFFER_SIZE = 1
         /\ i = BUFFER_SIZE /\ BUFFER_SIZE = 1 => (i + 1) % BUFFER_SIZE = 0
BY SizeAssumption

(* A read at an index a struct can hold gives a byte, in or out of the array. *)
LEMMA ByteAtType ==
  ASSUME TypeOK, NEW i \in 0 .. BUFFER_SIZE
  PROVE  ByteAt(i) \in Byte
BY SizeAssumption DEF TypeOK, ByteAt, Byte, Slots

LEMMA memcpyType ==
  ASSUME NEW mem \in [Slots -> Byte], NEW at \in Int, NEW src \in Seq(Byte)
  PROVE  memcpy(mem, at, src) \in [Slots -> Byte]
<1> SUFFICES ASSUME NEW i \in Slots
             PROVE  (IF i \in at .. at + Len(src) - 1 THEN src[i - at + 1] ELSE mem[i]) \in Byte
  BY DEF memcpy
<1>1. CASE i \in at .. at + Len(src) - 1
  BY <1>1, LenProperties, ElementOfSeq DEF Slots
<1>2. CASE i \notin at .. at + Len(src) - 1
  BY <1>2
<1> QED BY <1>1, <1>2

LEMMA BytesFromType ==
  ASSUME TypeOK, NEW at \in Nat, NEW len \in Nat, at + len <= BUFFER_SIZE
  PROVE  BytesFrom(at, len) \in Seq(Byte) /\ Len(BytesFrom(at, len)) = len
<1>1. ASSUME NEW k \in 1 .. len PROVE ByteAt(at + k - 1) \in Byte
  BY <1>1, ByteAtType, SizeAssumption
<1>2. BytesFrom(at, len) \in [1 .. len -> Byte]
  BY <1>1 DEF BytesFrom
<1> QED BY <1>2, FunctionIsSeq

LEMMA ResultType ==
  ASSUME NEW data \in Seq(Byte)
  PROVE  /\ Delivered(data) \in [ok : BOOLEAN, out : Seq(Byte)]
         /\ Delivered(<<>>) \in [ok : BOOLEAN, out : Seq(Byte)]
         /\ Failed \in [ok : BOOLEAN, out : Seq(Byte)]
BY EmptySeq DEF Delivered, Failed

(* The pieces of a payload that wraps. *)
LEMMA PieceType ==
  ASSUME NEW data \in Seq(Byte), NEW m \in 1 .. Len(data) + 1, NEW n \in 0 .. Len(data)
  PROVE  SubSeq(data, m, n) \in Seq(Byte)
<1>1. \A i \in m .. n : data[i] \in Byte
  BY ElementOfSeq, LenProperties
<1> QED BY <1>1, SubSeqProperties, LenProperties

-----------------------------------------------------------------------------
(* The struct's fields stay in range and agree, whatever calls are made.   *)

IInv == TypeOK /\ IndexCoherence

LEMMA InitIInv == Init => IInv
BY SizeAssumption, EmptySeq DEF Init, IInv, TypeOK, IndexCoherence, Slots, Failed

LEMMA WriteIInv ==
  ASSUME IInv, NEW data \in Payload, ring_buffer_write(data)
  PROVE  IInv'
<1> DEFINE len   == Len(data)
           space == BUFFER_SIZE - write_idx
           first == SubSeq(data, 1, space)
           rest  == SubSeq(data, space + 1, len)
           once  == memcpy(buffer, write_idx, first)
<1>0. /\ data \in Seq(Byte)
      /\ len \in Nat
      /\ buffer \in [Slots -> Byte]
      /\ write_idx \in 0 .. BUFFER_SIZE
      /\ space \in 0 .. BUFFER_SIZE
  BY PayloadIsSeq, SizeAssumption DEF IInv, TypeOK
<1>a. Delivered(<<>>) \in [ok : BOOLEAN, out : Seq(Byte)]
  BY ResultType, EmptySeq
<1>1. CASE Fail
  BY <1>1, ResultType, EmptySeq DEF Fail, rb, IInv, TypeOK, IndexCoherence
<1>2. CASE /\ len > 0 /\ ~NoRoom(len)
           /\ len <= space
           /\ buffer' = memcpy(buffer, write_idx, data)
           /\ write_idx' = write_idx + len
           /\ count' = count + len
           /\ result' = Delivered(<<>>)
           /\ read_idx' = read_idx
  <2>1. buffer' \in [Slots -> Byte]
    BY <1>0, <1>2, memcpyType
  <2> HIDE DEF len
  <2>2. TypeOK'
    BY <1>0, <1>a, <1>2, <2>1, SizeAssumption DEF IInv, TypeOK, NoRoom
  <2>3. IndexCoherence'
    BY <1>0, <1>2, SizeAssumption DEF IInv, TypeOK, NoRoom, IndexCoherence
  <2> QED BY <2>2, <2>3 DEF IInv
<1>3. CASE /\ len > 0 /\ ~NoRoom(len)
           /\ len > space
           /\ buffer' = memcpy(once, 0, rest)
           /\ write_idx' = len - space
           /\ count' = count + len
           /\ result' = Delivered(<<>>)
           /\ read_idx' = read_idx
  <2>1. first \in Seq(Byte) /\ rest \in Seq(Byte)
    BY <1>0, <1>3, PieceType
  <2> HIDE DEF first, rest
  <2>2. once \in [Slots -> Byte]
    BY <1>0, <2>1, memcpyType
  <2> HIDE DEF once
  <2>3. buffer' \in [Slots -> Byte]
    BY <1>3, <2>1, <2>2, memcpyType
  <2> HIDE DEF len
  <2>4. TypeOK'
    BY <1>0, <1>a, <1>3, <2>3, SizeAssumption DEF IInv, TypeOK, NoRoom
  <2>5. IndexCoherence'
    BY <1>0, <1>3, SizeAssumption DEF IInv, TypeOK, NoRoom, IndexCoherence
  <2> QED BY <2>4, <2>5 DEF IInv
<1> QED BY <1>1, <1>2, <1>3 DEF ring_buffer_write

LEMMA ReadIInv ==
  ASSUME IInv, ring_buffer_read
  PROVE  IInv'
<1> USE DEF IInv
<1>1. CASE Fail
  BY <1>1, ResultType, EmptySeq DEF Fail, rb, TypeOK, IndexCoherence
<1>2. CASE /\ count > 0
           /\ result' = Delivered(<<ByteAt(read_idx)>>)
           /\ read_idx' = (read_idx + 1) % BUFFER_SIZE
           /\ count' = count - 1
           /\ UNCHANGED <<buffer, write_idx>>
  <2>1. <<ByteAt(read_idx)>> \in Seq(Byte)
    BY ByteAtType DEF TypeOK
  <2>2. result' \in [ok : BOOLEAN, out : Seq(Byte)]
    BY <1>2, <2>1, ResultType
  <2>3. \/ read_idx + 1 < BUFFER_SIZE /\ read_idx' = read_idx + 1
        \/ read_idx + 1 = BUFFER_SIZE /\ read_idx' = 0
        \/ read_idx = BUFFER_SIZE /\ BUFFER_SIZE > 1 /\ read_idx' = 1
        \/ read_idx = BUFFER_SIZE /\ BUFFER_SIZE = 1 /\ read_idx' = 0
    BY <1>2, CyclicStep, SizeAssumption DEF TypeOK
  <2>4. count' = count - 1 /\ count > 0 /\ write_idx' = write_idx /\ buffer' = buffer
    BY <1>2
  <2>5. TypeOK'
    BY <2>2, <2>3, <2>4, SizeAssumption DEF TypeOK, Slots, Byte
  <2>6. IndexCoherence'
    BY <2>3, <2>4, SizeAssumption DEF TypeOK, IndexCoherence
  <2> QED BY <2>5, <2>6
<1> QED BY <1>1, <1>2 DEF ring_buffer_read

LEMMA ReadBatchIInv ==
  ASSUME IInv, NEW len \in Nat, ring_buffer_read_batch(len)
  PROVE  IInv'
<1> DEFINE to_end == BUFFER_SIZE - read_idx
<1> USE DEF IInv
<1>1. CASE Fail
  BY <1>1, ResultType, EmptySeq DEF Fail, rb, TypeOK, IndexCoherence
<1>2. CASE /\ len \in 1 .. count
           /\ len <= to_end
           /\ result' = Delivered(BytesFrom(read_idx, len))
           /\ read_idx' = read_idx + len
           /\ count' = count - len
           /\ UNCHANGED <<buffer, write_idx>>
  <2>1. BytesFrom(read_idx, len) \in Seq(Byte)
    BY <1>2, BytesFromType, SizeAssumption DEF TypeOK
  <2>2. result' \in [ok : BOOLEAN, out : Seq(Byte)]
    BY <1>2, <2>1, ResultType
  <2>3. TypeOK'
    BY <1>2, <2>2, SizeAssumption DEF TypeOK
  <2>4. IndexCoherence'
    BY <1>2, SizeAssumption DEF TypeOK, IndexCoherence
  <2> QED BY <2>3, <2>4
<1>3. CASE /\ len \in 1 .. count
           /\ len > to_end
           /\ result' = Delivered(BytesFrom(read_idx, to_end) \o BytesFrom(0, len - to_end))
           /\ read_idx' = len - to_end
           /\ count' = count - len
           /\ UNCHANGED <<buffer, write_idx>>
  <2>1. BytesFrom(read_idx, to_end) \in Seq(Byte) /\ BytesFrom(0, len - to_end) \in Seq(Byte)
    BY <1>3, BytesFromType, SizeAssumption DEF TypeOK
  <2>2. result' \in [ok : BOOLEAN, out : Seq(Byte)]
    BY <1>3, <2>1, ConcatProperties, ResultType
  <2>3. TypeOK'
    BY <1>3, <2>2, SizeAssumption DEF TypeOK
  <2>4. IndexCoherence'
    BY <1>3, SizeAssumption DEF TypeOK, IndexCoherence
  <2> QED BY <2>3, <2>4
<1> QED BY <1>1, <1>2, <1>3 DEF ring_buffer_read_batch

LEMMA NextIInv == IInv /\ [Next]_vars => IInv'
<1> SUFFICES ASSUME IInv, [Next]_vars PROVE IInv'
  OBVIOUS
<1>1. CASE Write
  BY <1>1, WriteIInv DEF Write
<1>2. CASE ring_buffer_read
  BY <1>2, ReadIInv
<1>3. CASE ReadBatch
  <2>1. PICK len \in 0 .. U16 - 1 : ring_buffer_read_batch(len)
    BY <1>3 DEF ReadBatch
  <2> QED BY <2>1, ReadBatchIInv, SizeAssumption
<1>4. CASE UNCHANGED vars
  BY <1>4 DEF vars, IInv, TypeOK, IndexCoherence
<1> QED BY <1>1, <1>2, <1>3, <1>4 DEF Next

(* Every sequence of calls keeps both indices and the count in range: no   *)
(* operation of lines 86-166 starts a copy outside the array.              *)
THEOREM TypeCorrect == Spec => []TypeOK
<1>1. IInv => TypeOK
  BY DEF IInv
<1> QED BY InitIInv, NextIInv, <1>1, PTL DEF Spec

(* Every sequence of calls, mixed reads included, keeps write_idx, read_idx *)
(* and count in agreement (lines 72-74).                                   *)
THEOREM Coherent == Spec => []IndexCoherence
<1>1. IInv => IndexCoherence
  BY DEF IInv
<1> QED BY InitIInv, NextIInv, <1>1, PTL DEF Spec

-----------------------------------------------------------------------------
(* What the calls do to the unread bytes. *)

LEMMA ContentsType ==
  ASSUME IInv
  PROVE  /\ Contents \in Seq(Byte)
         /\ Len(Contents) = count
         /\ \A k \in 1 .. count : SlotOf(k) \in Slots /\ Contents[k] = buffer[SlotOf(k)]
<1>1. \A k \in 1 .. count : SlotOf(k) \in Slots
  BY SizeAssumption DEF IInv, TypeOK, SlotOf, Slots
<1>2. \A k \in 1 .. count : buffer[SlotOf(k)] \in Byte
  BY <1>1 DEF IInv, TypeOK
<1>3. Contents \in [1 .. count -> Byte]
  BY <1>2 DEF Contents
<1>4. count \in Nat
  BY DEF IInv, TypeOK
<1>5. Contents \in Seq(Byte) /\ Len(Contents) = count
  BY <1>3, <1>4, FunctionIsSeq
<1> QED BY <1>1, <1>5 DEF Contents

LEMMA memcpyAt ==
  ASSUME NEW mem, NEW at, NEW src, NEW j \in Slots
  PROVE  /\ j \in at .. at + Len(src) - 1 => memcpy(mem, at, src)[j] = src[j - at + 1]
         /\ j \notin at .. at + Len(src) - 1 => memcpy(mem, at, src)[j] = mem[j]
BY DEF memcpy

(* A write that succeeds puts its bytes after the unread ones and leaves   *)
(* those alone, on either branch of line 98.                               *)
LEMMA WriteAppends ==
  ASSUME IInv, NEW data \in Payload, ring_buffer_write(data), ~Fail
  PROVE  /\ data # <<>> /\ count + Len(data) <= BUFFER_SIZE
         /\ Contents' = Contents \o data
         /\ result' = Delivered(<<>>)
         /\ count' = count + Len(data)
<1> DEFINE len   == Len(data)
           space == BUFFER_SIZE - write_idx
           first == SubSeq(data, 1, space)
           rest  == SubSeq(data, space + 1, len)
           once  == memcpy(buffer, write_idx, first)
<1>1. /\ data \in Seq(Byte)
      /\ len \in Nat
      /\ write_idx \in 0 .. BUFFER_SIZE
      /\ read_idx \in 0 .. BUFFER_SIZE
      /\ count \in 0 .. BUFFER_SIZE
      /\ space \in 0 .. BUFFER_SIZE
  BY PayloadIsSeq, SizeAssumption DEF IInv, TypeOK
<1>2. /\ len > 0 /\ ~NoRoom(len)
      /\ count' = count + len
      /\ result' = Delivered(<<>>)
      /\ read_idx' = read_idx
  BY DEF ring_buffer_write
<1>3. count + len <= BUFFER_SIZE
  BY <1>1, <1>2, SizeAssumption DEF NoRoom
<1>4. IInv'
  BY WriteIInv
<1>5. \A k \in 1 .. count + len : SlotOf(k)' = SlotOf(k) /\ SlotOf(k) \in Slots
  BY <1>1, <1>2, <1>3, SizeAssumption DEF SlotOf, Slots
(* Where the bytes are: an unread byte's slot is outside the copied ranges, *)
(* the slot after the last unread byte is the first one copied to.          *)
<1>6. ASSUME NEW k \in 1 .. count + len
      PROVE  buffer'[SlotOf(k)] = IF k <= count THEN buffer[SlotOf(k)] ELSE data[k - count]
  <2> DEFINE j == SlotOf(k)
  <2>1. j \in Slots /\ j \in 0 .. BUFFER_SIZE - 1
    BY <1>5, <1>6 DEF Slots
  <2>2. CASE len <= space
    <3>1. buffer' = memcpy(buffer, write_idx, data)
      BY <2>2, <1>1 DEF ring_buffer_write
    <3> HIDE DEF len
    <3>2. k <= count => j \notin write_idx .. write_idx + len - 1
      BY <1>1, <1>2, <1>3, <1>6, <2>2, SizeAssumption DEF IInv, IndexCoherence, SlotOf
    <3>3. k > count => j \in write_idx .. write_idx + len - 1 /\ j - write_idx + 1 = k - count
      BY <1>1, <1>2, <1>3, <1>6, <2>2, SizeAssumption DEF IInv, IndexCoherence, SlotOf
    <3> USE DEF len
    <3> HIDE DEF j
    <3>4. k <= count => buffer'[j] = buffer[j]
      BY <2>1, <3>1, <3>2, memcpyAt
    <3>5. k > count => buffer'[j] = data[k - count]
      BY <2>1, <3>1, <3>3, memcpyAt
    <3> QED BY <1>1, <1>6, <3>4, <3>5 DEF j
  <2>3. CASE len > space
    <3>1. buffer' = memcpy(once, 0, rest)
      BY <2>3, <1>1 DEF ring_buffer_write
    <3>2. first \in Seq(Byte) /\ Len(first) = space /\ \A i \in 1 .. space : first[i] = data[i]
      <4>1. \A i \in 1 .. space : data[i] \in Byte
        BY <1>1, <2>3, ElementOfSeq
      <4> HIDE DEF space
      <4>2. /\ SubSeq(data, 1, space) \in Seq(Byte)
            /\ Len(SubSeq(data, 1, space)) = IF 1 <= space THEN space - 1 + 1 ELSE 0
            /\ \A i \in 1 .. space - 1 + 1 : SubSeq(data, 1, space)[i] = data[1 + i - 1]
        BY <1>1, <4>1, SubSeqProperties
      <4> QED BY <1>1, <4>2
    <3>3. /\ rest \in Seq(Byte) /\ Len(rest) = len - space
          /\ \A i \in 1 .. len - space : rest[i] = data[space + i]
      <4>1. \A i \in space + 1 .. len : data[i] \in Byte
        BY <1>1, <2>3, ElementOfSeq
      <4> HIDE DEF space, len
      <4>2. /\ SubSeq(data, space + 1, len) \in Seq(Byte)
            /\ Len(SubSeq(data, space + 1, len)) =
                 IF space + 1 <= len THEN len - (space + 1) + 1 ELSE 0
            /\ \A i \in 1 .. len - (space + 1) + 1 :
                 SubSeq(data, space + 1, len)[i] = data[space + 1 + i - 1]
        BY <1>1, <4>1, SubSeqProperties
      <4> QED BY <1>1, <2>3, <4>2
    <3> HIDE DEF len, first, rest
    <3>4. k <= count => j \notin 0 .. len - space - 1 /\ j \notin write_idx .. write_idx + space - 1
      BY <1>1, <1>2, <1>3, <1>6, <2>3, SizeAssumption DEF IInv, IndexCoherence, SlotOf
    <3>5. k > count => \/ /\ j \in 0 .. len - space - 1
                          /\ j + 1 \in 1 .. len - space
                          /\ space + (j + 1) = k - count
                       \/ /\ j \notin 0 .. len - space - 1
                          /\ j \in write_idx .. write_idx + space - 1
                          /\ j - write_idx + 1 \in 1 .. space
                          /\ j - write_idx + 1 = k - count
      BY <1>1, <1>2, <1>3, <1>6, <2>3, SizeAssumption DEF IInv, IndexCoherence, SlotOf
    <3> HIDE DEF j, once, space
    <3>6. /\ j \in 0 .. len - space - 1 => buffer'[j] = rest[j + 1]
          /\ j \notin 0 .. len - space - 1 => buffer'[j] = once[j]
      <4>1. 0 + Len(rest) - 1 = len - space - 1 /\ j - 0 + 1 = j + 1
        BY <1>1, <2>1, <3>3, SizeAssumption
      <4> QED BY <2>1, <3>1, <4>1, memcpyAt
    <3>7. /\ j \in write_idx .. write_idx + space - 1 => once[j] = first[j - write_idx + 1]
          /\ j \notin write_idx .. write_idx + space - 1 => once[j] = buffer[j]
      BY <2>1, <3>2, memcpyAt DEF once
    <3>8. k <= count => buffer'[j] = buffer[j]
      BY <3>4, <3>6, <3>7
    <3>9. k > count => buffer'[j] = data[k - count]
      BY <3>2, <3>3, <3>5, <3>6, <3>7
    <3> QED BY <1>1, <1>6, <3>8, <3>9 DEF j
  <2> QED BY <1>1, <2>2, <2>3
<1>7. /\ Contents \in Seq(Byte) /\ Len(Contents) = count
      /\ \A k \in 1 .. count : Contents[k] = buffer[SlotOf(k)]
  BY ContentsType
<1>8. /\ Contents' \in Seq(Byte) /\ Len(Contents') = count + len
      /\ \A k \in 1 .. count + len : Contents'[k] = buffer'[SlotOf(k)]
  <2>1. (/\ Contents \in Seq(Byte)
         /\ Len(Contents) = count
         /\ \A k \in 1 .. count : SlotOf(k) \in Slots /\ Contents[k] = buffer[SlotOf(k)])'
    BY <1>4, ContentsType, PTL
  <2> QED BY <1>2, <1>5, <2>1
<1>9. Contents' = Contents \o data
  <2> DEFINE old == Contents
             new == Contents'
  <2>1. /\ old \o data \in Seq(Byte) /\ Len(old \o data) = count + len
        /\ \A i \in 1 .. count + len :
             (old \o data)[i] = IF i <= count THEN old[i] ELSE data[i - count]
    BY <1>1, <1>7, ConcatProperties
  <2>2. \A i \in 1 .. count + len : new[i] = (old \o data)[i]
    <3> HIDE DEF len, old
    <3> TAKE i \in 1 .. count + len
    <3>1. Contents'[i] = IF i <= count THEN buffer[SlotOf(i)] ELSE data[i - count]
      BY <1>6, <1>8
    <3>2. i <= count => i \in 1 .. count /\ Contents[i] = buffer[SlotOf(i)]
      BY <1>1, <1>7
    <3> QED BY <2>1, <3>1, <3>2 DEF old
  <2>3. new \in Seq(Byte) /\ Len(new) = count + len
    BY <1>8
  <2> HIDE DEF old, new, len
  <2>4. new = old \o data
    BY <2>1, <2>2, <2>3, SeqEqual
  <2> QED BY <2>4 DEF old, new
<1> QED BY <1>1, <1>2, <1>3, <1>9, EmptySeq

(* Moving the read index n bytes along the cycle drops the n oldest bytes. *)
LEMMA AdvanceDrops ==
  ASSUME IInv, IInv', NEW n \in 1 .. count,
         buffer' = buffer, count' = count - n,
         \/ read_idx' = read_idx + n
         \/ read_idx' = read_idx + n - BUFFER_SIZE
         \/ count' = 0
  PROVE  Contents' = SubSeq(Contents, n + 1, count)
<1> DEFINE new  == Contents'
           kept == SubSeq(Contents, n + 1, count)
<1>1. /\ count \in 0 .. BUFFER_SIZE
      /\ read_idx \in 0 .. BUFFER_SIZE
      /\ read_idx' \in 0 .. BUFFER_SIZE
  BY DEF IInv, TypeOK
<1>2. /\ Contents \in Seq(Byte) /\ Len(Contents) = count
      /\ \A k \in 1 .. count : Contents[k] \in Byte /\ Contents[k] = buffer[SlotOf(k)]
  BY ContentsType, ElementOfSeq
<1>3. /\ new \in Seq(Byte) /\ Len(new) = count - n
      /\ \A k \in 1 .. count - n : new[k] = buffer[SlotOf(k)']
  <2>1. (/\ Contents \in Seq(Byte)
         /\ Len(Contents) = count
         /\ \A k \in 1 .. count : SlotOf(k) \in Slots /\ Contents[k] = buffer[SlotOf(k)])'
    BY ContentsType, PTL
  <2> QED BY <2>1
<1>4. /\ kept \in Seq(Byte)
      /\ Len(kept) = count - n
      /\ \A k \in 1 .. count - n : kept[k] = Contents[n + k]
  <2>1. \A k \in n + 1 .. count : Contents[k] \in Byte
    BY <1>1, <1>2
  <2>2. /\ kept \in Seq(Byte)
        /\ Len(kept) = IF n + 1 <= count THEN count - (n + 1) + 1 ELSE 0
        /\ \A k \in 1 .. count - (n + 1) + 1 : kept[k] = Contents[n + 1 + k - 1]
    BY <1>1, <2>1, SubSeqProperties
  <2> HIDE DEF kept
  <2> QED BY <1>1, <2>2, SizeAssumption
<1>5. ASSUME NEW k \in 1 .. count - n PROVE SlotOf(k)' = SlotOf(n + k)
  <2>1. k \in 1 .. BUFFER_SIZE /\ n + k \in 1 .. count /\ count' # 0
    BY <1>1, <1>5, SizeAssumption
  <2>2. CASE read_idx' = read_idx + n
    BY <1>1, <2>1, <2>2, SizeAssumption DEF SlotOf
  <2>3. CASE read_idx' = read_idx + n - BUFFER_SIZE
    BY <1>1, <2>1, <2>3, SizeAssumption DEF SlotOf
  <2> QED BY <2>1, <2>2, <2>3
<1>6. \A k \in 1 .. count - n : new[k] = kept[k]
  <2> HIDE DEF new, kept
  <2> TAKE k \in 1 .. count - n
  <2>1. n + k \in 1 .. count
    BY <1>1
  <2> QED BY <1>2, <1>3, <1>4, <1>5, <2>1
<1> HIDE DEF new, kept
<1>7. new = kept
  BY <1>1, <1>3, <1>4, <1>6, SeqEqual
<1> QED BY <1>7 DEF new, kept

(* A batch read that succeeds delivers the oldest bytes and drops them, on *)
(* either branch of line 146.                                              *)
LEMMA ReadBatchTakes ==
  ASSUME IInv, NEW len \in Nat, ring_buffer_read_batch(len), ~Fail
  PROVE  /\ len \in 1 .. count
         /\ result' = Delivered(SubSeq(Contents, 1, len))
         /\ count' = count - len
         /\ Contents' = SubSeq(Contents, len + 1, count)
<1> DEFINE to_end == BUFFER_SIZE - read_idx
           oldest == SubSeq(Contents, 1, len)
<1>1. /\ count \in 0 .. BUFFER_SIZE
      /\ read_idx \in 0 .. BUFFER_SIZE
      /\ to_end \in 0 .. BUFFER_SIZE
  BY SizeAssumption DEF IInv, TypeOK
<1>2. /\ len \in 1 .. count
      /\ buffer' = buffer
      /\ count' = count - len
      /\ read_idx' = read_idx + len \/ read_idx' = read_idx + len - BUFFER_SIZE
  BY <1>1, SizeAssumption DEF ring_buffer_read_batch
<1>3. IInv'
  BY ReadBatchIInv
<1>4. Contents' = SubSeq(Contents, len + 1, count)
  BY <1>2, <1>3, AdvanceDrops
<1>5. /\ Contents \in Seq(Byte) /\ Len(Contents) = count
      /\ \A k \in 1 .. count : SlotOf(k) \in Slots /\ Contents[k] = buffer[SlotOf(k)]
  BY ContentsType
<1>6. /\ oldest \in Seq(Byte) /\ Len(oldest) = len
      /\ \A k \in 1 .. len : oldest[k] = buffer[SlotOf(k)]
  <2>1. \A k \in 1 .. len : k \in 1 .. count /\ Contents[k] \in Byte
    BY <1>1, <1>2, <1>5, ElementOfSeq
  <2>2. /\ oldest \in Seq(Byte)
        /\ Len(oldest) = IF 1 <= len THEN len - 1 + 1 ELSE 0
        /\ \A k \in 1 .. len - 1 + 1 : oldest[k] = Contents[1 + k - 1]
    BY <2>1, SubSeqProperties
  <2> HIDE DEF oldest
  <2>3. \A k \in 1 .. len : oldest[k] = Contents[k]
    BY <2>2
  <2> QED BY <1>2, <1>5, <2>1, <2>2, <2>3
<1>7. CASE len <= to_end
  <2> DEFINE bytes == BytesFrom(read_idx, len)
  <2>1. result' = Delivered(bytes)
    BY <1>1, <1>2, <1>7 DEF ring_buffer_read_batch
  <2>2. bytes \in Seq(Byte) /\ Len(bytes) = len
    BY <1>1, <1>2, <1>7, BytesFromType, SizeAssumption DEF IInv
  <2>3. \A k \in 1 .. len : bytes[k] = oldest[k]
    <3> HIDE DEF oldest
    <3> TAKE k \in 1 .. len
    <3>1. read_idx + k - 1 \in Slots /\ SlotOf(k) = read_idx + k - 1
      BY <1>1, <1>2, <1>7, SizeAssumption DEF Slots, SlotOf
    <3>2. bytes[k] = buffer[read_idx + k - 1]
      BY <3>1 DEF BytesFrom, ByteAt
    <3> QED BY <1>6, <3>1, <3>2
  <2> HIDE DEF bytes, oldest
  <2>4. bytes = oldest
    BY <1>6, <2>2, <2>3, SeqEqual
  <2> QED BY <2>1, <2>4, <1>2, <1>4 DEF oldest
<1>8. CASE len > to_end
  <2> DEFINE top   == BytesFrom(read_idx, to_end)
             rest  == BytesFrom(0, len - to_end)
             bytes == top \o rest
  <2>1. result' = Delivered(bytes)
    BY <1>1, <1>2, <1>8 DEF ring_buffer_read_batch
  <2>2. /\ top \in Seq(Byte) /\ Len(top) = to_end
        /\ rest \in Seq(Byte) /\ Len(rest) = len - to_end
    <3>1. /\ read_idx \in Nat /\ to_end \in Nat /\ read_idx + to_end <= BUFFER_SIZE
          /\ 0 \in Nat /\ len - to_end \in Nat /\ 0 + (len - to_end) <= BUFFER_SIZE
      BY <1>1, <1>2, <1>8, SizeAssumption
    <3> HIDE DEF to_end
    <3> QED BY <3>1, BytesFromType DEF IInv
  <2>3. \A k \in 1 .. to_end : top[k] = buffer[SlotOf(k)]
    <3> TAKE k \in 1 .. to_end
    <3>1. read_idx + k - 1 \in Slots /\ SlotOf(k) = read_idx + k - 1
      BY <1>1, SizeAssumption DEF Slots, SlotOf
    <3> QED BY <3>1 DEF BytesFrom, ByteAt
  <2>4. \A k \in to_end + 1 .. len : k - to_end \in 1 .. len - to_end
                                   /\ rest[k - to_end] = buffer[SlotOf(k)]
    <3> TAKE k \in to_end + 1 .. len
    <3>1. /\ k - to_end \in 1 .. len - to_end
          /\ 0 + (k - to_end) - 1 \in Slots
          /\ SlotOf(k) = 0 + (k - to_end) - 1
      BY <1>1, <1>2, <1>8, SizeAssumption DEF Slots, SlotOf
    <3> HIDE DEF to_end
    <3> QED BY <3>1 DEF BytesFrom, ByteAt
  <2> HIDE DEF top, rest, oldest, to_end
  <2>5. /\ bytes \in Seq(Byte)
        /\ Len(bytes) = len
        /\ \A k \in 1 .. len : bytes[k] = IF k <= to_end THEN top[k] ELSE rest[k - to_end]
    <3>1. to_end + (len - to_end) = len
      BY <1>1
    <3>2. /\ top \o rest \in Seq(Byte)
          /\ Len(top \o rest) = Len(top) + Len(rest)
          /\ \A k \in 1 .. Len(top) + Len(rest) :
               (top \o rest)[k] = IF k <= Len(top) THEN top[k] ELSE rest[k - Len(top)]
      BY <2>2, ConcatProperties
    <3> QED BY <2>2, <3>1, <3>2
  <2> HIDE DEF bytes
  <2>6. \A k \in 1 .. len : bytes[k] = oldest[k]
    <3> TAKE k \in 1 .. len
    <3>1. k <= to_end => k \in 1 .. to_end
      BY <1>1
    <3>2. ~(k <= to_end) => k \in to_end + 1 .. len
      BY <1>1
    <3> QED BY <1>6, <2>3, <2>4, <2>5, <3>1, <3>2
  <2>7. bytes = oldest
    BY <1>6, <2>5, <2>6, SeqEqual
  <2> QED BY <2>1, <2>7, <1>2, <1>4 DEF oldest
<1> QED BY <1>1, <1>7, <1>8

(* A single-byte read that succeeds drops the oldest byte wherever the read *)
(* index rests, and delivers it when the index rests inside the array.      *)
LEMMA ReadTakes ==
  ASSUME IInv, ring_buffer_read, ~Fail
  PROVE  /\ count \in 1 .. BUFFER_SIZE
         /\ count' = count - 1
         /\ Contents' = SubSeq(Contents, 2, count)
         /\ read_idx \in Slots => result' = Delivered(<<Contents[1]>>)
<1>1. /\ count \in 1 .. BUFFER_SIZE
      /\ result' = Delivered(<<ByteAt(read_idx)>>)
      /\ read_idx' = (read_idx + 1) % BUFFER_SIZE
      /\ count' = count - 1
      /\ buffer' = buffer
      /\ read_idx \in 0 .. BUFFER_SIZE
  BY SizeAssumption DEF ring_buffer_read, IInv, TypeOK
<1>2. IInv'
  BY ReadIInv
<1>3. \/ read_idx' = read_idx + 1
      \/ read_idx' = read_idx + 1 - BUFFER_SIZE
      \/ count' = 0
  <2>1. CASE read_idx + 1 < BUFFER_SIZE
    BY <1>1, <2>1, CyclicStep
  <2>2. CASE read_idx + 1 = BUFFER_SIZE
    BY <1>1, <2>2, CyclicStep
  <2>3. CASE read_idx = BUFFER_SIZE /\ BUFFER_SIZE > 1
    BY <1>1, <2>3, CyclicStep, SizeAssumption
  <2>4. CASE read_idx = BUFFER_SIZE /\ BUFFER_SIZE = 1
    BY <1>1, <2>4
  <2> QED BY <1>1, <2>1, <2>2, <2>3, <2>4, SizeAssumption
<1>4. Contents' = SubSeq(Contents, 1 + 1, count)
  BY <1>1, <1>2, <1>3, AdvanceDrops
<1>5. read_idx \in Slots => ByteAt(read_idx) = Contents[1]
  <2>1. 1 \in 1 .. count /\ (read_idx \in Slots => SlotOf(1) = read_idx)
    BY <1>1, SizeAssumption DEF SlotOf, Slots
  <2> QED BY <2>1, ContentsType DEF ByteAt
<1> QED BY <1>1, <1>4, <1>5

-----------------------------------------------------------------------------
(* A refused call changes nothing of the buffer. *)
LEMMA FailKeeps ==
  ASSUME IInv, Fail
  PROVE  count' = count /\ Contents' = Contents /\ result' = Failed
BY DEF Fail, rb, Contents, SlotOf

LEMMA PrefixOfConcat ==
  ASSUME NEW s \in Seq(Byte), NEW t \in Seq(Byte)
  PROVE  SubSeq(s \o t, 1, Len(s)) = s
<1> DEFINE n     == Len(s)
           both  == s \o t
           front == SubSeq(both, 1, n)
<1>1. n \in Nat /\ Len(t) \in Nat
  BY LenProperties
<1>2. \A i \in 1 .. n : both[i] = s[i] /\ both[i] \in Byte
  <2>1. \A i \in 1 .. n + Len(t) : both[i] = IF i <= n THEN s[i] ELSE t[i - n]
    BY ConcatProperties
  <2> QED BY <1>1, <2>1, ElementOfSeq
<1>3. /\ front \in Seq(Byte)
      /\ Len(front) = IF 1 <= n THEN n - 1 + 1 ELSE 0
      /\ \A i \in 1 .. n - 1 + 1 : front[i] = both[1 + i - 1]
  <2> HIDE DEF n, both
  <2> QED BY <1>1, <1>2, SubSeqProperties
<1>4. Len(front) = n /\ \A i \in 1 .. n : front[i] = s[i]
  <2> HIDE DEF n, both, front
  <2> QED BY <1>1, <1>2, <1>3
<1>5. n = Len(s)
  OBVIOUS
<1> HIDE DEF n, both, front
<1>6. front = s
  BY <1>3, <1>4, <1>5, SeqEqual
<1> QED BY <1>6 DEF front, both, n

LEMMA StepKeepsUnread == IInv /\ [Next]_vars => [KeepsUnread]_vars
<1> SUFFICES ASSUME IInv, Next PROVE KeepsUnread
  BY DEF vars
<1>1. /\ Contents \in Seq(Byte) /\ Len(Contents) = count
      /\ count \in Nat
  BY ContentsType DEF IInv, TypeOK
<1>2. SubSeq(Contents, 1, count) = Contents
  BY <1>1, SubSeqFull
<1>3. CASE Fail
  BY <1>1, <1>2, <1>3, FailKeeps DEF KeepsUnread
<1>4. CASE Write /\ ~Fail
  <2>1. PICK data \in Payload : ring_buffer_write(data)
    BY <1>4 DEF Write
  <2>2. data \in Seq(Byte) /\ Len(data) \in Nat
    BY PayloadIsSeq
  <2>3. Contents' = Contents \o data /\ count' = count + Len(data)
    BY <1>4, <2>1, WriteAppends
  <2>4. SubSeq(Contents \o data, 1, count) = Contents
    BY <1>1, <2>2, PrefixOfConcat
  <2> QED BY <1>1, <2>2, <2>3, <2>4 DEF KeepsUnread
<1>5. CASE ring_buffer_read /\ ~Fail
  <2>1. count \in Int /\ count' = count - 1 /\ Contents' = SubSeq(Contents, 2, count)
    BY <1>1, <1>5, ReadTakes
  <2> QED BY <2>1 DEF KeepsUnread
<1>6. CASE ReadBatch /\ ~Fail
  <2>1. PICK len \in 0 .. U16 - 1 : ring_buffer_read_batch(len)
    BY <1>6 DEF ReadBatch
  <2>2. len \in 1 .. count /\ count' = count - len /\ Contents' = SubSeq(Contents, len + 1, count)
    BY <1>6, <2>1, ReadBatchTakes, SizeAssumption
  <2> QED BY <1>1, <2>2 DEF KeepsUnread
<1> QED BY <1>3, <1>4, <1>5, <1>6 DEF Next

(* No sequence of calls, mixed reads included, overwrites, loses or        *)
(* reorders a byte that is still unread.                                   *)
THEOREM UnreadKept == Spec => UnreadIsKept
BY InitIInv, NextIInv, StepKeepsUnread, PTL DEF Spec, UnreadIsKept

-----------------------------------------------------------------------------
(* The refinement of the abstract byte queue. *)

(* A call that left the struct alone and reported failure was refused by   *)
(* its guard: the success branches all change count.                       *)
LEMMA WriteRefused ==
  ASSUME IInv, NEW data \in Payload, ring_buffer_write(data), Fail
  PROVE  data = <<>> \/ count + Len(data) > BUFFER_SIZE
BY PayloadIsSeq DEF Fail, rb, Failed, Delivered, ring_buffer_write, NoRoom

LEMMA ReadRefused ==
  ASSUME IInv, ring_buffer_read, Fail
  PROVE  count = 0
BY DEF Fail, rb, Failed, Delivered, ring_buffer_read

LEMMA ReadBatchRefused ==
  ASSUME IInv, NEW len \in Nat, ring_buffer_read_batch(len), Fail
  PROVE  len \notin 1 .. count
BY DEF Fail, rb, Failed, Delivered, ring_buffer_read_batch, IInv, TypeOK

LEMMA SubSeqOne ==
  ASSUME NEW s \in Seq(Byte), Len(s) >= 1
  PROVE  SubSeq(s, 1, 1) = <<s[1]>>
<1>1. s[1] \in Byte
  BY LenProperties, ElementOfSeq
<1>2. /\ SubSeq(s, 1, 1) \in Seq(Byte) /\ Len(SubSeq(s, 1, 1)) = 1
      /\ SubSeq(s, 1, 1)[1] = s[1]
  <2>1. \A i \in 1 .. 1 : s[i] \in Byte
    BY <1>1
  <2>2. /\ SubSeq(s, 1, 1) \in Seq(Byte)
        /\ Len(SubSeq(s, 1, 1)) = IF 1 <= 1 THEN 1 - 1 + 1 ELSE 0
        /\ \A i \in 1 .. 1 - 1 + 1 : SubSeq(s, 1, 1)[i] = s[1 + i - 1]
    BY <2>1, SubSeqProperties
  <2> QED BY <2>2
<1> DEFINE left  == SubSeq(s, 1, 1)
           right == <<s[1]>>
<1>3. right \in Seq(Byte) /\ Len(right) = 1 /\ right[1] = s[1]
  BY <1>1
<1>4. \A i \in 1 .. 1 : left[i] = right[i]
  BY <1>2, <1>3
<1>5. left \in Seq(Byte) /\ Len(left) = 1
  BY <1>2
<1> HIDE DEF left, right
<1>6. left = right
  BY <1>3, <1>4, <1>5, SeqEqual
<1> QED BY <1>6 DEF left, right

LEMMA StepRefines == IInv /\ [CarefulNext]_vars => [Queue!Next]_(Queue!vars)
<1> SUFFICES ASSUME IInv, [CarefulNext]_vars PROVE [Queue!Next]_(Queue!vars)
  OBVIOUS
<1>1. /\ Contents \in Seq(Byte) /\ Len(Contents) = count
      /\ count \in 0 .. BUFFER_SIZE
  BY ContentsType DEF IInv, TypeOK
<1>2. Queue!Payload = Payload /\ Queue!Failed = Failed
      /\ \A d : Queue!Delivered(d) = Delivered(d)
  BY DEF Queue!Payload, Payload, Queue!Failed, Failed, Queue!Delivered, Delivered
<1>3. CASE Write
  <2>1. PICK data \in Payload : ring_buffer_write(data)
    BY <1>3 DEF Write
  <2>2. CASE Fail
    <3>1. data = <<>> \/ count + Len(data) > BUFFER_SIZE
      BY <2>1, <2>2, PayloadIsSeq, WriteRefused
    <3>2. Queue!Refuse(data = <<>> \/ Len(Contents) + Len(data) > BUFFER_SIZE)
      BY <1>1, <1>2, <2>2, <3>1, FailKeeps DEF Queue!Refuse
    <3> QED BY <1>2, <3>2 DEF Queue!Next
  <2>3. CASE ~Fail
    <3>1. Queue!Enqueue(data)
      BY <1>1, <1>2, <2>1, <2>3, WriteAppends DEF Queue!Enqueue
    <3> QED BY <1>2, <3>1 DEF Queue!Next
  <2> QED BY <2>2, <2>3
<1>4. CASE CarefulRead
  <2>1. CASE Fail
    <3>1. count = 0
      BY <1>4, <2>1, ReadRefused DEF CarefulRead
    <3>2. 1 \notin 1 .. Len(Contents) /\ 1 \in 0 .. U16 - 1
      BY <1>1, <3>1, SizeAssumption
    <3>3. Queue!Refuse(1 \notin 1 .. Len(Contents))
      BY <1>2, <2>1, <3>2, FailKeeps DEF Queue!Refuse
    <3> QED BY <3>2, <3>3 DEF Queue!Next
  <2>2. CASE ~Fail
    <3>1. /\ count \in 1 .. BUFFER_SIZE
          /\ Contents' = SubSeq(Contents, 2, count)
          /\ result' = Delivered(<<Contents[1]>>)
      BY <1>4, <2>2, ReadTakes DEF CarefulRead
    <3>2. SubSeq(Contents, 1, 1) = <<Contents[1]>>
      BY <1>1, <3>1, SubSeqOne
    <3>3. 1 \in 1 .. Len(Contents) /\ 1 \in 0 .. U16 - 1 /\ 1 + 1 = 2
      BY <1>1, <3>1, SizeAssumption
    <3>4. Queue!Remove(1)
      BY <1>1, <1>2, <3>1, <3>2, <3>3 DEF Queue!Remove
    <3> QED BY <3>3, <3>4 DEF Queue!Next
  <2> QED BY <2>1, <2>2
<1>5. CASE ReadBatch
  <2>1. PICK len \in 0 .. U16 - 1 : ring_buffer_read_batch(len)
    BY <1>5 DEF ReadBatch
  <2>a. len \in Nat
    BY SizeAssumption
  <2>2. CASE Fail
    <3>1. len \notin 1 .. Len(Contents)
      BY <1>1, <2>1, <2>2, <2>a, ReadBatchRefused
    <3>2. Queue!Refuse(len \notin 1 .. Len(Contents))
      BY <1>2, <2>2, <3>1, FailKeeps DEF Queue!Refuse
    <3> QED BY <3>2 DEF Queue!Next
  <2>3. CASE ~Fail
    <3>1. Queue!Remove(len)
      BY <1>1, <1>2, <2>1, <2>3, <2>a, ReadBatchTakes DEF Queue!Remove
    <3> QED BY <3>1 DEF Queue!Next
  <2> QED BY <2>2, <2>3
<1>6. CASE UNCHANGED vars
  BY <1>6 DEF vars, Queue!vars, Contents, SlotOf
<1> QED BY <1>3, <1>4, <1>5, <1>6 DEF CarefulNext

LEMMA CarefulIsNext == [CarefulNext]_vars => [Next]_vars
BY DEF CarefulNext, CarefulRead, Next

LEMMA InitRefines == Init => Queue!Init
BY DEF Init, Queue!Init, Contents, Failed, Queue!Failed

(* For every size and width, every operation of every caller is one of the *)
(* bounded FIFO, but for a single read while the read index is past the    *)
(* end, whatever operations came before it.                                *)
THEOREM ImplementsByteQueue == Spec => IsByteQueue
<1>1. IInv /\ [Next]_vars => [CarefulNext => [Queue!Next]_(Queue!vars)]_vars
  BY StepRefines
<1> QED BY <1>1, InitIInv, NextIInv, InitRefines, PTL DEF Spec, IsByteQueue

(* So a caller that never takes a single byte there has a FIFO.            *)
THEOREM CarefulGetsFifo == CarefulSpec => Queue!Spec
BY InitIInv, NextIInv, CarefulIsNext, InitRefines, StepRefines, PTL
   DEF CarefulSpec, Queue!Spec

(* A caller that only reads single bytes never parks the read index past   *)
(* the end, so the modulo of line 125 is enough for it.                    *)
LEMMA ByteCallerIndex ==
  read_idx \in Slots /\ IInv /\ [Write \/ ring_buffer_read]_vars => (read_idx \in Slots)'
<1> SUFFICES ASSUME read_idx \in Slots, IInv, [Write \/ ring_buffer_read]_vars
             PROVE  read_idx' \in Slots
  BY DEF Slots
<1>1. CASE Write
  BY <1>1 DEF Write, ring_buffer_write, Fail, rb
<1>2. CASE ring_buffer_read
  <2>1. CASE read_idx' = read_idx
    BY <2>1
  <2>2. CASE read_idx' = (read_idx + 1) % BUFFER_SIZE
    <3>1. read_idx \in 0 .. BUFFER_SIZE
      BY DEF IInv, TypeOK
    <3>2. CASE read_idx + 1 < BUFFER_SIZE
      BY <2>2, <3>1, <3>2, CyclicStep, SizeAssumption DEF Slots
    <3>3. CASE read_idx + 1 = BUFFER_SIZE
      BY <2>2, <3>1, <3>3, CyclicStep, SizeAssumption DEF Slots
    <3> QED BY <3>1, <3>2, <3>3, SizeAssumption DEF Slots
  <2> QED BY <1>2, <2>1, <2>2 DEF ring_buffer_read, Fail, rb
<1>3. CASE UNCHANGED vars
  BY <1>3 DEF vars
<1> QED BY <1>1, <1>2, <1>3

LEMMA ByteCallerSteps ==
  read_idx \in Slots /\ [Write \/ ring_buffer_read]_vars => [CarefulNext]_vars
BY DEF CarefulNext, CarefulRead

LEMMA ByteCallerStart == Init => read_idx \in Slots
BY SizeAssumption DEF Init, Slots

(* A caller that uses ring_buffer_read for every byte gets a FIFO. *)
THEOREM ByteCallerGetsFifo == ByteCallerSpec => Queue!Spec
<1>1. [Write \/ ring_buffer_read]_vars => [Next]_vars
  BY DEF Next
<1>2. ByteCallerSpec => CarefulSpec
  BY <1>1, InitIInv, NextIInv, ByteCallerStart, ByteCallerIndex, ByteCallerSteps, PTL
     DEF ByteCallerSpec, CarefulSpec
<1> QED BY <1>2, CarefulGetsFifo

(* A caller that uses ring_buffer_read_batch throughout, as main() does    *)
(* (line 582), gets a FIFO.                                                *)
THEOREM BatchCallerGetsFifo == BatchCallerSpec => Queue!Spec
<1>1. [Write \/ ReadBatch]_vars => [CarefulNext]_vars
  BY DEF CarefulNext
<1>2. BatchCallerSpec => CarefulSpec
  BY <1>1, PTL DEF BatchCallerSpec, CarefulSpec
<1> QED BY <1>2, CarefulGetsFifo
=============================================================================
