--------------------------- MODULE StreamIO_proofs ---------------------------
(***************************************************************************)
(* sendInt and recv_command move exactly one item or report an error, for  *)
(* every size of an integer and a frame and every way the stream is cut:   *)
(* they implement ExactTransfer, each in its direction.                    *)
(***************************************************************************)
EXTENDS StreamIO, SequenceTheorems, TLAPS

(* Where a call stands: the bytes on the wire, and in the caller's frame,   *)
(* are the first `total` of this call's item, next to those of the calls of *)
(* the same function before.                                                *)
SendInv ==
  /\ DOMAIN out = SendCalls
  /\ \A f \in SendCalls : out[f].done \in Nat
  /\ wire \in Seq(Nat)
  /\ \A f \in SendCalls : pc = f => wire = Bytes(out[f].done, total)

RecvInv ==
  /\ in.done \in Nat
  /\ taken \in Nat /\ taken <= arrived
  /\ taken = in.done + IF Receiving THEN total ELSE 0
  /\ Receiving => buf = Bytes(in.done, total)
  /\ buf \in Seq(Nat) /\ Len(buf) <= FRAME

IInv ==
  /\ pc \in {"idle", "sendInt", "send_command", "recv_command"}
  /\ total \in Nat
  /\ pc # "idle" => total <= left
  /\ calls \in 0 .. MaxCalls /\ arrived \in 0 .. MaxBytes /\ open \in BOOLEAN
  /\ SendInv
  /\ RecvInv

LEMMA BytesType ==
  ASSUME NEW p \in Nat, NEW n \in Nat
  PROVE  /\ Bytes(p, n) \in Seq(Nat) /\ Len(Bytes(p, n)) = n
         /\ \A i \in 1 .. n : Bytes(p, n)[i] = p + i
<1>1. \A i \in 1 .. n : p + i \in Nat
  OBVIOUS
<1> QED BY <1>1 DEF Bytes

(* The stream goes on where it stopped. *)
LEMMA BytesJoin ==
  ASSUME NEW p \in Nat, NEW m \in Nat, NEW n \in Nat
  PROVE  Bytes(p, m) \o Bytes(p + m, n) = Bytes(p, m + n)
<1> DEFINE a == Bytes(p, m)
           b == Bytes(p + m, n)
<1>0. p + m \in Nat /\ m + n \in Nat
  OBVIOUS
<1>1a. a \in Seq(Nat) /\ Len(a) = m /\ \A i \in 1 .. m : a[i] = p + i
  BY BytesType
<1>1b. b \in Seq(Nat) /\ Len(b) = n /\ \A i \in 1 .. n : b[i] = (p + m) + i
  BY <1>0, BytesType
<1>1. /\ a \in Seq(Nat) /\ Len(a) = m /\ \A i \in 1 .. m : a[i] = p + i
      /\ b \in Seq(Nat) /\ Len(b) = n /\ \A i \in 1 .. n : b[i] = p + m + i
      /\ p + m \in Nat /\ m + n \in Nat
  BY <1>0, <1>1a, <1>1b
<1> HIDE DEF a, b
<1>2. /\ a \o b \in Seq(Nat) /\ Len(a \o b) = m + n
      /\ \A i \in 1 .. m + n : (a \o b)[i] = IF i <= m THEN a[i] ELSE b[i - m]
  BY <1>1, ConcatProperties
<1>3. \A i \in 1 .. m + n : (a \o b)[i] = p + i
  <2> TAKE i \in 1 .. m + n
  <2>1. CASE i <= m
    BY <1>1, <1>2, <2>1
  <2>2. CASE i > m
    <3>1. i - m \in 1 .. n
      BY <2>2
    <3>2. b[i - m] = p + m + (i - m)
      BY <1>1, <3>1
    <3>3. (a \o b)[i] = b[i - m]
      BY <1>2, <2>2
    <3>4. p + m + (i - m) = p + i
      OBVIOUS
    <3> QED BY <3>2, <3>3, <3>4
  <2>3. i <= m \/ i > m
    OBVIOUS
  <2> QED BY <2>1, <2>2, <2>3
<1> DEFINE c == Bytes(p, m + n)
<1>4. c \in Seq(Nat) /\ Len(c) = m + n /\ \A i \in 1 .. m + n : c[i] = p + i
  BY <1>1, BytesType
<1> HIDE DEF c
<1>5. a \o b = c
  BY <1>2, <1>3, <1>4, SeqEqual
<1> QED BY <1>5 DEF a, b, c

LEMMA LeftSizes ==
  ASSUME pc \in {"idle", "sendInt", "send_command", "recv_command"}
  PROVE  /\ left \in Nat
         /\ Sending => left \in {INT, POINTER}
         /\ Receiving => left = FRAME
         /\ Sending <=> pc # "idle" /\ ~Receiving
BY StreamAssumption DEF left, Sending, SendCalls, Receiving

-----------------------------------------------------------------------------
LEMMA InitInv == Init => IInv
BY StreamAssumption DEF Init, IInv, SendInv, RecvInv, SendCalls, Receiving, Nothing

LEMMA CallKeeps == IInv /\ Call => IInv'
<1> SUFFICES ASSUME IInv, Call PROVE IInv'
  OBVIOUS
<1>1. /\ pc = "idle" /\ calls < MaxCalls
      /\ pc' \in {"sendInt", "send_command", "recv_command"}
      /\ total' = 0 /\ buf' = <<>> /\ wire' = <<>> /\ calls' = calls + 1
      /\ arrived' = arrived /\ taken' = taken
      /\ open' = open /\ out' = out /\ in' = in
  BY DEF Call
<1>2. ~Receiving
  BY <1>1 DEF Receiving
<1>3. SendInv'
  <2>1. \A f \in SendCalls : Bytes(out[f].done, total)' = <<>>
    BY <1>1 DEF Bytes
  <2> QED BY <1>1, <2>1 DEF IInv, SendInv
<1>4. RecvInv'
  <2>1. Bytes(in.done, 0) = <<>>
    BY DEF Bytes
  <2> QED BY <1>1, <1>2, <2>1, StreamAssumption DEF IInv, RecvInv, Bytes
<1>5. left' \in Nat
  BY <1>1, StreamAssumption DEF left
<1> QED BY <1>1, <1>3, <1>4, <1>5, StreamAssumption DEF IInv

LEMMA SendKeeps == IInv /\ SendSome => IInv'
<1> SUFFICES ASSUME IInv, SendSome PROVE IInv'
  OBVIOUS
<1>1. PICK n \in 1 .. left - total :
        wire' = wire \o Bytes(out[pc].done + total, n) /\ total' = total + n
  BY DEF SendSome
<1>2. /\ Sending /\ total < left
      /\ pc' = pc /\ buf' = buf /\ calls' = calls /\ arrived' = arrived
      /\ taken' = taken /\ open' = open /\ out' = out /\ in' = in
  BY DEF SendSome
<1>3. /\ left \in Nat /\ ~Receiving /\ total \in Nat /\ n \in Nat
      /\ total + n <= left /\ pc \in SendCalls /\ out[pc].done \in Nat
      /\ wire = Bytes(out[pc].done, total)
  BY <1>1, <1>2, LeftSizes DEF IInv, SendInv, Sending
<1>4. left' = left /\ Receiving' = Receiving
  BY <1>2 DEF left, Receiving
<1>5. wire' = Bytes(out[pc].done, total + n)
  BY <1>1, <1>3, BytesJoin
<1>6. wire' \in Seq(Nat)
  BY <1>3, <1>5, BytesType, total + n \in Nat
<1>7. SendInv'
  <2>1. \A f \in SendCalls : pc' = f => wire' = Bytes(out[f].done, total)'
    BY <1>1, <1>2, <1>5 DEF Bytes
  <2> QED BY <1>2, <1>6, <2>1 DEF IInv, SendInv
<1>8. RecvInv'
  BY <1>2, <1>3, <1>4 DEF IInv, RecvInv
<1> QED BY <1>1, <1>2, <1>3, <1>4, <1>7, <1>8 DEF IInv

LEMMA RecvKeeps == IInv /\ RecvSome => IInv'
<1> SUFFICES ASSUME IInv, RecvSome PROVE IInv'
  OBVIOUS
<1>1. PICK n \in 1 .. left - total :
        /\ taken + n <= arrived /\ buf' = buf \o Bytes(taken, n)
        /\ total' = total + n /\ taken' = taken + n
  BY DEF RecvSome
<1>2. /\ Receiving /\ total < left
      /\ pc' = pc /\ calls' = calls /\ wire' = wire /\ arrived' = arrived
      /\ open' = open /\ out' = out /\ in' = in
  BY DEF RecvSome
<1>3. /\ left = FRAME /\ left \in Nat /\ ~Sending /\ total \in Nat /\ n \in Nat
      /\ total + n <= FRAME /\ in.done \in Nat /\ taken = in.done + total
      /\ buf = Bytes(in.done, total)
  BY <1>1, <1>2, LeftSizes DEF IInv, RecvInv
<1>4. left' = left /\ Sending' = Sending /\ Receiving' = Receiving
  BY <1>2 DEF left, Sending, Receiving
<1>5. buf' = Bytes(in.done, total + n)
  BY <1>1, <1>3, BytesJoin
<1>6. buf' \in Seq(Nat) /\ Len(buf') = total + n
  BY <1>3, <1>5, BytesType, total + n \in Nat
<1>7. RecvInv'
  <2>1. Bytes(in.done, total)' = Bytes(in.done, total + n)
    BY <1>1, <1>2 DEF Bytes
  <2>2. in'.done = in.done /\ taken' \in Nat /\ taken' <= arrived'
    BY <1>1, <1>2, <1>3 DEF IInv, RecvInv
  <2>3. taken' = in'.done + total'
    BY <1>1, <1>3, <2>2
  <2>4. Len(buf') <= FRAME
    BY <1>3, <1>6
  <2>5. buf' = Bytes(in.done, total)'
    BY <1>5, <2>1
  <2>6. Receiving'
    BY <1>2, <1>4
  <2> QED BY <1>3, <1>6, <2>2, <2>3, <2>4, <2>5, <2>6 DEF RecvInv
<1>8. SendInv'
  BY <1>2, <1>3 DEF IInv, SendInv, Sending
<1> QED BY <1>1, <1>2, <1>3, <1>4, <1>7, <1>8 DEF IInv

LEMMA ReturnKeeps ==
  ASSUME IInv, pc # "idle", NEW r, Returns(r)
  PROVE  IInv'
<1>1. /\ pc' = "idle" /\ total' = total /\ buf' = buf /\ calls' = calls /\ wire' = wire
      /\ arrived' = arrived /\ taken' = taken /\ open' = open
  BY DEF Returns
<1>2. ~Sending' /\ ~Receiving'
  BY <1>1 DEF Sending, SendCalls, Receiving
<1>3. CASE Sending
  <2>1. in' = in /\ ~Receiving /\ pc \in SendCalls
        /\ out' = [out EXCEPT ![pc] =
                    [done |-> out[pc].done + total, moved |-> wire, result |-> r]]
    BY <1>3 DEF Returns, Sending, SendCalls, Receiving
  <2>2. SendInv'
    <3>1. DOMAIN out = SendCalls /\ total \in Nat /\ \A f \in SendCalls : out[f].done \in Nat
      BY DEF IInv, SendInv
    <3>2. DOMAIN out' = SendCalls /\ \A f \in SendCalls : out'[f].done \in Nat
      BY <2>1, <3>1
    <3>3. \A f \in SendCalls : pc' # f
      BY <1>1 DEF SendCalls
    <3> QED BY <1>1, <3>2, <3>3 DEF IInv, SendInv
  <2>3. RecvInv'
    BY <1>1, <1>2, <2>1 DEF IInv, RecvInv
  <2> QED BY <1>1, <2>2, <2>3 DEF IInv
<1>4. CASE ~Sending
  <2>1. in'.done = taken /\ out' = out
    BY <1>4 DEF Returns
  <2>2. SendInv'
    BY <1>1, <2>1 DEF IInv, SendInv, SendCalls
  <2>3. RecvInv'
    BY <1>1, <1>2, <2>1 DEF IInv, RecvInv
  <2> QED BY <1>1, <2>2, <2>3 DEF IInv
<1> QED BY <1>3, <1>4

LEMMA PeerKeeps == IInv /\ (PeerSends \/ PeerCloses \/ UNCHANGED vars) => IInv'
<1> SUFFICES ASSUME IInv, PeerSends \/ PeerCloses \/ UNCHANGED vars PROVE IInv'
  OBVIOUS
<1>o. open \in BOOLEAN
  BY Zenon DEF IInv
<1>0. arrived \in 0 .. MaxBytes /\ MaxBytes \in Nat
  BY StreamAssumption DEF IInv
<1>1a. /\ pc' = pc /\ total' = total /\ buf' = buf /\ calls' = calls /\ wire' = wire
       /\ taken' = taken /\ out' = out /\ in' = in
  BY DEF PeerSends, PeerCloses, vars
<1>1b. arrived' \in 0 .. MaxBytes /\ arrived <= arrived'
  BY <1>0 DEF PeerSends, PeerCloses, vars
<1>1c. open' \in BOOLEAN
  <2>1. open' = open \/ open' = FALSE
    BY Zenon DEF PeerSends, PeerCloses, vars
  <2> QED BY <1>o, <2>1, Zenon
<1>1. /\ pc' = pc /\ total' = total /\ buf' = buf /\ calls' = calls /\ wire' = wire
      /\ taken' = taken /\ out' = out /\ in' = in
      /\ arrived' \in 0 .. MaxBytes /\ arrived <= arrived' /\ open' \in BOOLEAN
  BY <1>1a, <1>1b, <1>1c
<1>2. left' = left /\ Sending' = Sending /\ Receiving' = Receiving
  BY <1>1 DEF left, Sending, Receiving
<1>3. Bytes(in.done, total)' = Bytes(in.done, total)
  BY <1>1 DEF Bytes
<1>4. SendInv'
  <2>1. \A f \in SendCalls : Bytes(out[f].done, total)' = Bytes(out[f].done, total)
    BY <1>1 DEF Bytes
  <2> QED BY <1>1, <2>1 DEF IInv, SendInv
<1>5. RecvInv'
  BY <1>1, <1>2, <1>3, StreamAssumption DEF IInv, RecvInv
<1> QED BY <1>1, <1>2, <1>4, <1>5 DEF IInv

LEMMA StepInv == IInv /\ [Next]_vars => IInv'
<1> SUFFICES ASSUME IInv, [Next]_vars PROVE IInv'
  OBVIOUS
<1>1. CASE Complete \/ Disconnected \/ CallFails
  <2>1. pc # "idle" /\ (Returns(0) \/ Returns(-1))
    BY <1>1 DEF Complete, Disconnected, CallFails, Receiving
  <2> QED BY <2>1, ReturnKeeps
<1> QED BY <1>1, CallKeeps, SendKeeps, RecvKeeps, PeerKeeps DEF Next, Loop

LEMMA InvType == IInv => TypeOK
<1> SUFFICES ASSUME IInv PROVE TypeOK
  OBVIOUS
<1>1. left \in Nat
  BY LeftSizes DEF IInv
<1>2. Sending => Len(wire) = total
  <2> SUFFICES ASSUME Sending PROVE Len(wire) = total
    OBVIOUS
  <2>1. pc \in SendCalls /\ out[pc].done \in Nat /\ wire = Bytes(out[pc].done, total)
    BY DEF Sending, IInv, SendInv
  <2> QED BY <2>1, BytesType DEF IInv
<1> QED BY <1>1, <1>2 DEF IInv, SendInv, RecvInv, TypeOK

(* No call moves more than its item, and recv_command never writes beyond   *)
(* the caller's frame.                                                      *)
THEOREM TypeCorrect == Spec => []TypeOK
BY InitInv, StepInv, InvType, PTL DEF Spec

-----------------------------------------------------------------------------
(* A call that returns is one step of ExactTransfer in its direction. *)

LEMMA SendReturns ==
  ASSUME IInv, pc = "sendInt", NEW r \in {0, -1}, Returns(r),
         total <= left, r = 0 => total = left, r = -1 => total < left
  PROVE  Ints!Next
<1> DEFINE o == out["sendInt"]
<1>1. Sending /\ "sendInt" \in SendCalls /\ left = INT /\ INT \in Nat
  BY StreamAssumption DEF Sending, SendCalls, left
<1>2. DOMAIN out = SendCalls /\ total \in Nat /\ o.done \in Nat /\ wire = Bytes(o.done, total)
  BY <1>1 DEF IInv, SendInv
<1>3. out'["sendInt"] = [done |-> o.done + total, moved |-> wire, result |-> r]
  BY <1>1, <1>2 DEF Returns
<1>4. /\ out'["sendInt"].moved = [i \in 1 .. total |-> o.done + i]
      /\ out'["sendInt"].done = o.done + total
      /\ out'["sendInt"].result = r
  BY <1>2, <1>3 DEF Bytes
<1>5. CASE r = 0
  <2>1. Ints!Whole(INT)
    BY <1>1, <1>4, <1>5 DEF Ints!Whole, Ints!Moves
  <2> QED BY <2>1 DEF Ints!Next
<1>6. CASE r = -1
  <2>1. total \in 0 .. INT - 1
    BY <1>1, <1>2, <1>6
  <2>2. Ints!Failed(INT)
    BY <1>4, <1>6, <2>1 DEF Ints!Failed, Ints!Moves
  <2> QED BY <2>2 DEF Ints!Next
<1> QED BY <1>5, <1>6

LEMMA RecvReturns ==
  ASSUME IInv, Receiving, NEW r \in {0, -1}, Returns(r),
         total <= left, r = 0 => total = left, r = -1 => total < left
  PROVE  In!Next
<1>1. in'.done = taken /\ in'.result = r /\ in'.moved = buf
  BY DEF Returns, Sending, SendCalls, Receiving
<1>2. /\ in.done \in Nat /\ total \in Nat /\ taken = in.done + total
      /\ buf = Bytes(in.done, total) /\ left = FRAME /\ left \in Nat
  BY LeftSizes DEF IInv, RecvInv
<1>3. in'.moved = [i \in 1 .. total |-> in.done + i] /\ in'.done = in.done + total
  BY <1>1, <1>2 DEF Bytes
<1>4. CASE r = 0
  <2>1. In!Whole(FRAME)
    BY <1>1, <1>2, <1>3, <1>4 DEF In!Whole, In!Moves
  <2> QED BY <2>1 DEF In!Next
<1>5. CASE r = -1
  <2>1. total \in 0 .. FRAME - 1
    BY <1>2, <1>5
  <2>2. In!Failed(FRAME)
    BY <1>1, <1>3, <1>5, <2>1 DEF In!Failed, In!Moves
  <2> QED BY <2>2 DEF In!Next
<1> QED BY <1>4, <1>5

LEMMA ReturnMaps ==
  ASSUME IInv, pc # "idle", NEW r \in {0, -1}, Returns(r),
         total <= left, r = 0 => total = left, r = -1 => total < left
  PROVE  [Ints!Next]_(Ints!vars) /\ [In!Next]_(In!vars)
<1>1. CASE pc = "sendInt"
  <2>1. Ints!Next
    BY <1>1, SendReturns
  <2>2. in' = in
    BY <1>1 DEF Returns, Sending, SendCalls
  <2> QED BY <2>1, <2>2 DEF In!vars
<1>2. CASE pc = "send_command"
  <2>1. in' = in /\ out' = [out EXCEPT !["send_command"] =
                             [done |-> @.done + total, moved |-> wire, result |-> r]]
    BY <1>2 DEF Returns, Sending, SendCalls
  <2>2. out'["sendInt"] = out["sendInt"]
    BY <2>1 DEF IInv, SendInv, SendCalls
  <2> QED BY <2>1, <2>2 DEF Ints!vars, In!vars
<1>3. CASE Receiving
  <2>1. In!Next
    BY <1>3, RecvReturns
  <2>2. out' = out
    BY <1>3 DEF Returns, Sending, SendCalls, Receiving
  <2> QED BY <2>1, <2>2 DEF Ints!vars
<1> QED BY <1>1, <1>2, <1>3 DEF IInv, Receiving

LEMMA StepMaps ==
  IInv /\ [Next]_vars => [Ints!Next]_(Ints!vars) /\ [In!Next]_(In!vars)
<1> SUFFICES ASSUME IInv, [Next]_vars
             PROVE  [Ints!Next]_(Ints!vars) /\ [In!Next]_(In!vars)
  OBVIOUS
<1>1. left \in Nat /\ total \in Nat /\ (pc # "idle" => total <= left)
  BY LeftSizes DEF IInv
<1>2. CASE Complete
  BY <1>1, <1>2, ReturnMaps DEF Complete
<1>3. CASE Disconnected \/ CallFails
  <2>1. pc # "idle" /\ total < left /\ Returns(-1)
    BY <1>3 DEF Disconnected, CallFails, Receiving
  <2> QED BY <1>1, <2>1, ReturnMaps
<1>4. CASE Call \/ SendSome \/ RecvSome \/ PeerSends \/ PeerCloses \/ UNCHANGED vars
  <2>1. out' = out /\ in' = in
    BY <1>4 DEF Call, SendSome, RecvSome, PeerSends, PeerCloses, vars
  <2> QED BY <2>1 DEF Ints!vars, In!vars
<1> QED BY <1>2, <1>3, <1>4 DEF Next, Loop

LEMMA InitMaps == Init => Ints!Init /\ In!Init
BY DEF Init, Nothing, SendCalls, Ints!Init, In!Init

(* sendInt puts exactly its INT bytes on the wire, each once and in order,   *)
(* or fewer and reports -1 (409-421).                                        *)
THEOREM SendsExactly == Spec => WritesExactly
BY InitMaps, InitInv, StepInv, StepMaps, PTL DEF Spec, WritesExactly, Ints!Spec

(* recv_command hands over exactly the next frame of the stream, or -1      *)
(* (448-464).                                                               *)
THEOREM ReceivesExactly == Spec => ReadsExactly
BY InitMaps, InitInv, StepInv, StepMaps, PTL DEF Spec, ReadsExactly, In!Spec
=============================================================================
