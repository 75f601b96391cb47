------------------------- MODULE MCControlRegister -------------------------
(* Numbers for the run instruct_limit: up to the documented limit and past it. *)
EXTENDS ControlRegister

MCNext ==
  \/ \E n \in 0 .. INSTRUCT + 1 : Start(n)
  \/ InstructBit \/ InstructWrite \/ PulseLow \/ PulseHigh

MCSpec == RegisterInit /\ [][MCNext]_register
=============================================================================
