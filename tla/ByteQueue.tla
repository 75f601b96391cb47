----------------------------- MODULE ByteQueue -----------------------------
(***************************************************************************)
(* What the ring buffer of helloworld.c promises its caller: a bounded     *)
(* first-in first-out queue of bytes.  A write appends all of its bytes or *)
(* none of them, a read delivers the oldest bytes or nothing, and every    *)
(* call reports which of the two happened.                                 *)
(***************************************************************************)
EXTENDS Integers, Sequences

CONSTANTS Capacity,  \* the number of bytes the queue can hold
          Byte,      \* the values of a byte
          MaxLength  \* the largest length a caller can pass

VARIABLES queue,     \* the bytes written and not yet read, oldest first
          result     \* what the last call returned, and the bytes it delivered

vars == <<queue, result>>

Payload == UNION {[1 .. len -> Byte] : len \in 0 .. MaxLength}

Failed          == [ok |-> FALSE, out |-> <<>>]
Delivered(data) == [ok |-> TRUE, out |-> data]

Init == queue = <<>> /\ result = Failed

Enqueue(data) ==
  /\ data # <<>>
  /\ Len(queue) + Len(data) <= Capacity
  /\ queue' = queue \o data
  /\ result' = Delivered(<<>>)

Remove(len) ==
  /\ len \in 1 .. Len(queue)
  /\ queue' = SubSeq(queue, len + 1, Len(queue))
  /\ result' = Delivered(SubSeq(queue, 1, len))

Refuse(cannot) ==
  /\ cannot
  /\ result' = Failed
  /\ UNCHANGED queue

Next ==
  \/ \E data \in Payload :
       \/ Enqueue(data)
       \/ Refuse(data = <<>> \/ Len(queue) + Len(data) > Capacity)
  \/ \E len \in 0 .. MaxLength :
       \/ Remove(len)
       \/ Refuse(len \notin 1 .. Len(queue))

Spec == Init /\ [][Next]_vars
=============================================================================
