------------------------------ MODULE StreamIO ------------------------------
(***************************************************************************)
(* The socket helpers that loop until an item is through (helloworld.c     *)
(* 409-464): sendInt, send_command and recv_command.  send may accept and  *)
(* recv may return any part of what is left; either may fail, once or for  *)
(* good, and the peer may close.  After an error the caller may go on.     *)
(*                                                                         *)
(* TCP itself is external.  A byte is named by its position: received, in  *)
(* the stream; sent, in the items its function has sent one after another. *)
(***************************************************************************)
EXTENDS Integers, Sequences

CONSTANTS INT,          \* sizeof(uint32_t)
          FRAME,        \* sizeof(struct command_struct)
          POINTER,      \* sizeof(struct command_struct*), which line 426 takes
          MaxCalls,     \* bound: calls made
          MaxBytes      \* bound: bytes the peer sends

ASSUME StreamAssumption ==
  /\ {INT, FRAME, POINTER} \subseteq Nat \ {0}
  /\ MaxCalls \in Nat /\ MaxBytes \in Nat

VARIABLES
  pc,           \* the function, or "idle"
  total,        \* total_sent or total_recv
  buf,          \* what recv_command has put into the caller's frame
  calls         \* calls made

VARIABLES       \* the connection
  wire,         \* what send accepted of the last send call
  arrived,      \* bytes the peer has sent
  taken,        \* bytes recv took of them
  open          \* the peer has not closed

VARIABLES       \* history, the calls that have returned: [done, moved, result]
  out,          \* of each send function
  in            \* and of recv_command

vars == <<pc, total, buf, calls, wire, arrived, taken, open, out, in>>

left == CASE pc = "sendInt"      -> INT
          [] pc = "send_command" -> POINTER
          [] pc = "recv_command" -> FRAME
          [] OTHER               -> 0

SendCalls == {"sendInt", "send_command"}
Sending   == pc \in SendCalls
Receiving == pc = "recv_command"
Nothing   == [done |-> 0, moved |-> <<>>, result |-> 0]

Init ==
  /\ pc = "idle" /\ total = 0 /\ buf = <<>> /\ calls = 0
  /\ wire = <<>> /\ arrived = 0 /\ taken = 0 /\ open = TRUE
  /\ out = [f \in SendCalls |-> Nothing] /\ in = Nothing

-----------------------------------------------------------------------------
Call ==
  /\ pc = "idle" /\ calls < MaxCalls
  /\ pc' \in {"sendInt", "send_command", "recv_command"}
  /\ total' = 0 /\ buf' = <<>> /\ wire' = <<>> /\ calls' = calls + 1
  /\ UNCHANGED <<arrived, taken, open, out, in>>

(* The next n bytes of a stream that has come to position p. *)
Bytes(p, n) == [i \in 1 .. n |-> p + i]

(* Next to it, the data sent from the start of the buffer every time. *)
send_from_start ==
  /\ Sending /\ total < left
  /\ \E n \in 1 .. left - total :
       /\ wire' = wire \o Bytes(out[pc].done, n)
       /\ total' = total + n
  /\ UNCHANGED <<pc, buf, calls, arrived, taken, open, out, in>>

(* send(sock, buf + total_sent, left - total_sent) *)
SendSome ==
  /\ Sending /\ total < left
  /\ \E n \in 1 .. left - total :
       /\ wire' = wire \o Bytes(out[pc].done + total, n)
       /\ total' = total + n
  /\ UNCHANGED <<pc, buf, calls, arrived, taken, open, out, in>>

(* Next to it, recv asked for a whole frame every time. *)
recv_whole ==
  /\ Receiving /\ total < left
  /\ \E n \in 1 .. left :
       /\ taken + n <= arrived
       /\ buf' = buf \o Bytes(taken, n)
       /\ total' = total + n /\ taken' = taken + n
  /\ UNCHANGED <<pc, calls, wire, arrived, open, out, in>>

(* recv(sock, buf + total_recv, left - total_recv) *)
RecvSome ==
  /\ Receiving /\ total < left
  /\ \E n \in 1 .. left - total :
       /\ taken + n <= arrived
       /\ buf' = buf \o Bytes(taken, n)
       /\ total' = total + n /\ taken' = taken + n
  /\ UNCHANGED <<pc, calls, wire, arrived, open, out, in>>

Returns(result) ==
  /\ pc' = "idle"
  /\ IF Sending
     THEN /\ out' = [out EXCEPT ![pc] =
                      [done |-> @.done + total, moved |-> wire, result |-> result]]
          /\ UNCHANGED in
     ELSE /\ in' = [done |-> taken, moved |-> buf, result |-> result]
          /\ UNCHANGED out
  /\ UNCHANGED <<total, buf, calls, wire, arrived, taken, open>>

(* Next to it, the loops left after one call of recv. *)
one_recv == pc # "idle" /\ total > 0 /\ (Sending => total = left) /\ Returns(0)

Complete == pc # "idle" /\ total = left /\ Returns(0)

(* send or recv returns -1. *)
CallFails == pc # "idle" /\ total < left /\ Returns(-1)

(* Next to it, the test for 0 (457) left out: the loop goes round. *)
no_test_for_0 ==
  /\ Receiving /\ total < left /\ taken = arrived /\ ~open
  /\ UNCHANGED vars

(* recv returns 0. *)
Disconnected ==
  /\ Receiving /\ total < left
  /\ taken = arrived /\ ~open
  /\ Returns(-1)

PeerSends ==
  /\ open /\ arrived < MaxBytes
  /\ arrived' = arrived + 1
  /\ UNCHANGED <<pc, total, buf, calls, wire, taken, open, out, in>>

PeerCloses ==
  /\ open /\ open' = FALSE
  /\ UNCHANGED <<pc, total, buf, calls, wire, arrived, taken, out, in>>

Loop == SendSome \/ RecvSome \/ Complete \/ Disconnected
Next == Call \/ Loop \/ CallFails \/ PeerSends \/ PeerCloses

Spec == Init /\ [][Next]_vars

(* send accepts something in the end, recv returns what has arrived. *)
FairSpec == Spec /\ WF_vars(Loop)

-----------------------------------------------------------------------------
(* Each variable within its range; the stream only grows and is only taken  *)
(* as far as it has come; a call never moves more than its item.            *)
TypeOK ==
  /\ pc \in {"idle", "sendInt", "send_command", "recv_command"}
  /\ pc # "idle" => total \in 0 .. left
  /\ buf \in Seq(Nat) /\ Len(buf) <= FRAME
  /\ calls \in 0 .. MaxCalls
  /\ wire \in Seq(Nat) /\ (Sending => Len(wire) = total)
  /\ arrived \in 0 .. MaxBytes /\ taken \in 0 .. arrived
  /\ open \in BOOLEAN

(* sendInt sends exactly its integer, whatever parts send accepts (409-421):*)
(* each of the INT bytes once, in order, all of them when it returns 0 and   *)
(* fewer when it returns -1, send_command's calls in between or not.         *)
Ints == INSTANCE ExactTransfer
          WITH Sizes <- {INT}, done <- out["sendInt"].done,
               moved <- out["sendInt"].moved, result <- out["sendInt"].result
WritesExactly == Ints!Spec

(* send_command sends exactly a command frame, one byte and two bytes (the   *)
(* comment at 189-193, the packed struct at 194-198), as recv_command takes  *)
(* one (450).  The code takes the size of a pointer to it (426).             *)
Frames == INSTANCE ExactTransfer
            WITH Sizes <- {FRAME}, done <- out["send_command"].done,
                 moved <- out["send_command"].moved, result <- out["send_command"].result
SendsFrames == Frames!Spec

(* recv_command returns 0 with exactly the next frame's bytes and leaves    *)
(* the stream behind it; with -1 it has taken, and lost, fewer than a frame *)
(* has.                                                                     *)
In == INSTANCE ExactTransfer
        WITH Sizes <- {FRAME}, done <- in.done, moved <- in.moved, result <- in.result
ReadsExactly == In!Spec

(* Every call returns, also when the peer closes in the middle of a frame   *)
(* (457), except a receive that waits for bytes of an open connection.      *)
CallsReturn ==
  pc # "idle" ~> pc = "idle" \/ (Receiving /\ open /\ taken = arrived)
=============================================================================
