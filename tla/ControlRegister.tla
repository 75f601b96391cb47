--------------------------- MODULE ControlRegister ---------------------------
(***************************************************************************)
(* The FPGA's control register as the ARM writes it: set_Reg and           *)
(* start_read_pulse (fc_hal/fc_hal.c) and w_instruct (helloworld.c         *)
(* 338-352), which announces a number of data blocks.  Bit BITS says that  *)
(* the bits below are such a number, bit BITS + 1 asks for a read, bit     *)
(* BITS + 2 resets the FPGA.                                               *)
(***************************************************************************)
EXTENDS Integers, Sequences

CONSTANT BITS     \* bits of a block number: 7

ASSUME BitsAssumption == BITS \in 1 .. 7

(* 1 << k, as far as the register uses it. *)
Two(k) == <<1, 2, 4, 8, 16, 32, 64, 128, 256, 512>>[k + 1]

INSTRUCT == Two(BITS)
READ     == Two(BITS + 1)
RESET    == Two(BITS + 2)

VARIABLES
  command,      \* what the register holds
  num,          \* the parameter of w_instruct, halved at every turn
  binary,       \* the bits it has copied
  bitPos,       \* how many those are
  asked         \* history: the number w_instruct was called with

w_vars   == <<num, binary, bitPos, asked>>
register == <<command, w_vars>>

RegisterInit ==
  /\ command = 0
  /\ num = 0 /\ binary = 0 /\ bitPos = 0 /\ asked = 0

set_Reg(val) == command' = val

(* Above 128 it only prints "error" (339-341) and goes on. *)
w_instruct(n) ==
  /\ num' = n /\ asked' = n
  /\ binary' = 0 /\ bitPos' = 0
  /\ UNCHANGED command

Copying == num > 0 /\ bitPos < BITS

(* Next to it, the bits shifted in from the other end. *)
shift_in ==
  /\ Copying
  /\ binary' = binary * 2 + (num % 2)
  /\ num' = num \div 2
  /\ bitPos' = bitPos + 1
  /\ UNCHANGED <<asked, command>>

InstructBit ==
  /\ Copying
  /\ binary' = binary + (num % 2) * Two(bitPos)
  /\ num' = num \div 2
  /\ bitPos' = bitPos + 1
  /\ UNCHANGED <<asked, command>>

InstructWrite ==
  /\ ~Copying
  /\ set_Reg(binary + INSTRUCT)
  /\ UNCHANGED w_vars

(* start_read_pulse writes 0, 1 << 8 and 0, each an access of its own. *)
PulseLow  == set_Reg(0) /\ UNCHANGED w_vars
PulseHigh == set_Reg(READ) /\ UNCHANGED w_vars

-----------------------------------------------------------------------------
(* A program that announces one number after another. *)

Start(n) == ~Copying /\ w_instruct(n)

RegisterNext ==
  \/ \E n \in Nat : Start(n)
  \/ InstructBit \/ InstructWrite \/ PulseLow \/ PulseHigh

RegisterSpec == RegisterInit /\ [][RegisterNext]_register

(* The loop of w_instruct: what is copied and what is left make up the      *)
(* number it was called with.                                               *)
BitsAddUp == binary + num * Two(bitPos) = asked /\ binary < Two(bitPos)

(* The format of line 335: the number below, the flag over it. *)
Announces(n) == command \div INSTRUCT = 1 /\ command % INSTRUCT = n

(* A number that BITS bits hold is announced as what it is, bit for bit, by *)
(* what w_instruct writes at its end (345-351).                             *)
AnnouncesAsked == [][InstructWrite /\ asked < INSTRUCT => Announces(asked)']_register

(* The comment's limit, "at most 128, an error above" (334): numbers up to  *)
(* 128 are announced as what they are.                                      *)
LimitIsAnnounced == [][InstructWrite /\ asked <= INSTRUCT => Announces(asked)']_register
=============================================================================
