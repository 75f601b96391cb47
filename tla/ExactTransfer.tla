---------------------------- MODULE ExactTransfer ----------------------------
(***************************************************************************)
(* What a looping send or receive promises of a byte stream: a call moves  *)
(* exactly one item, the bytes that come next and in their order, or it    *)
(* reports an error and has moved a proper prefix of one.  A byte is named *)
(* by its position in the stream.                                          *)
(***************************************************************************)
EXTENDS Integers

CONSTANT Sizes      \* the sizes an item may have

VARIABLES
  done,     \* bytes moved by the calls that have returned
  moved,    \* the bytes the last of them moved, in their order
  result    \* what it returned: 0 or -1; before the first, 0

vars == <<done, moved, result>>

Init == done = 0 /\ moved = <<>> /\ result = 0

Moves(n) ==
  /\ moved' = [i \in 1 .. n |-> done + i]
  /\ done' = done + n

Whole(n)  == Moves(n) /\ result' = 0
Failed(n) == (\E k \in 0 .. n - 1 : Moves(k)) /\ result' = -1

Next == \E n \in Sizes : Whole(n) \/ Failed(n)

Spec == Init /\ [][Next]_vars
=============================================================================
