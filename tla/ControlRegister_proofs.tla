----------------------- MODULE ControlRegister_proofs -----------------------
(***************************************************************************)
(* w_instruct announces every number that BITS bits hold, for every BITS:  *)
(* AnnouncesAsked, by the loop invariant BitsAddUp.                        *)
(***************************************************************************)
EXTENDS ControlRegister, TLAPS

RegTypeOK ==
  /\ num \in Nat /\ binary \in Nat /\ asked \in Nat
  /\ bitPos \in 0 .. BITS

RegInv == RegTypeOK /\ BitsAddUp

LEMMA TwoValues ==
  /\ Two(0) = 1 /\ Two(1) = 2 /\ Two(2) = 4 /\ Two(3) = 8
  /\ Two(4) = 16 /\ Two(5) = 32 /\ Two(6) = 64 /\ Two(7) = 128
BY DEF Two

LEMMA TwoDoubles ==
  ASSUME NEW k \in 0 .. 6
  PROVE  Two(k) \in Nat /\ Two(k + 1) = 2 * Two(k)
<1>1. k = 0 \/ k = 1 \/ k = 2 \/ k = 3 \/ k = 4 \/ k = 5 \/ k = 6
  OBVIOUS
<1> QED BY <1>1, TwoValues

(* One turn of the loop moves the low bit from what is left to what is      *)
(* copied.                                                                  *)
LEMMA LowBitMoves ==
  ASSUME NEW n \in Nat, NEW t \in Nat
  PROVE  (n % 2) * t + (n \div 2) * (2 * t) = n * t
<1> DEFINE h == n \div 2
<1>1. h \in Nat /\ (n = 2 * h \/ n = 2 * h + 1) /\ (n % 2 = n - 2 * h)
  OBVIOUS
<1>2. CASE n = 2 * h
  <2>1. n % 2 = 0
    BY <1>1, <1>2
  <2>2. h * (2 * t) = (2 * h) * t
    BY <1>1
  <2> QED BY <1>1, <1>2, <2>1, <2>2
<1>3. CASE n = 2 * h + 1
  <2>1. n % 2 = 1
    BY <1>1, <1>3
  <2>2. h * (2 * t) + t = (2 * h + 1) * t
    BY <1>1
  <2> QED BY <1>1, <1>3, <2>1, <2>2
<1> QED BY <1>1, <1>2, <1>3

LEMMA RegInitInv == RegisterInit => RegInv
BY BitsAssumption, TwoValues DEF RegisterInit, RegInv, RegTypeOK, BitsAddUp

LEMMA StartKeeps ==
  ASSUME NEW n \in Nat, w_instruct(n) PROVE RegInv'
BY BitsAssumption, TwoValues DEF w_instruct, RegInv, RegTypeOK, BitsAddUp

LEMMA BitKeeps ==
  ASSUME RegInv, InstructBit PROVE RegInv'
<1> USE BitsAssumption
<1>1. /\ num \in Nat /\ binary \in Nat /\ asked \in Nat /\ bitPos \in 0 .. 6
      /\ bitPos + 1 <= BITS
  BY DEF InstructBit, Copying, RegInv, RegTypeOK
<1>2. Two(bitPos) \in Nat /\ Two(bitPos + 1) = 2 * Two(bitPos)
  BY <1>1, TwoDoubles
<1> DEFINE t == Two(bitPos)
           bit == num % 2
           half == num \div 2
<1>3. bit \in 0 .. 1 /\ half \in Nat
  BY <1>1
<1>4. bit * t + half * (2 * t) = num * t
  BY <1>1, <1>2, LowBitMoves
<1>5. binary + num * t = asked /\ binary < t
  BY DEF RegInv, BitsAddUp
<1>6. /\ num' = half /\ binary' = binary + bit * t
      /\ bitPos' = bitPos + 1 /\ asked' = asked
  BY DEF InstructBit
<1>7. bit * t \in Nat /\ bit * t <= t
  <2>1. CASE bit = 0
    BY <2>1, <1>2
  <2>2. CASE bit = 1
    BY <2>2, <1>2
  <2> QED BY <1>3, <2>1, <2>2
<1>8. RegTypeOK'
  BY <1>1, <1>3, <1>6, <1>7 DEF RegTypeOK
<1>9. Two(bitPos)' = 2 * t
  BY <1>2, <1>6 DEF Two
<1>10. BitsAddUp'
  <2>1. binary' + num' * Two(bitPos)' = binary + bit * t + half * (2 * t)
    BY <1>6, <1>9
  <2>2. half * (2 * t) \in Nat /\ num * t \in Nat
    BY <1>1, <1>2, <1>3
  <2> HIDE DEF t, bit, half
  <2>3. binary + bit * t + half * (2 * t) = asked
    BY <1>1, <1>4, <1>5, <1>7, <2>2
  <2>4. binary' < Two(bitPos)'
    BY <1>1, <1>2, <1>5, <1>6, <1>7, <1>9 DEF t
  <2> QED BY <2>1, <2>3, <2>4, <1>6 DEF BitsAddUp
<1> QED BY <1>8, <1>10 DEF RegInv

LEMMA SameKeeps == RegInv /\ UNCHANGED w_vars => RegInv'
BY DEF w_vars, RegInv, RegTypeOK, BitsAddUp, Two

LEMMA RegStepInv == RegInv /\ [RegisterNext]_register => RegInv'
<1> SUFFICES ASSUME RegInv, [RegisterNext]_register PROVE RegInv'
  OBVIOUS
<1>1. ASSUME NEW n \in Nat, Start(n) PROVE RegInv'
  BY <1>1, StartKeeps DEF Start
<1>2. CASE InstructBit
  BY <1>2, BitKeeps
<1>3. CASE InstructWrite \/ PulseLow \/ PulseHigh \/ UNCHANGED register
  BY <1>3, SameKeeps DEF InstructWrite, PulseLow, PulseHigh, register
<1> QED BY <1>1, <1>2, <1>3 DEF RegisterNext

LEMMA InstructValues == INSTRUCT \in {2, 4, 8, 16, 32, 64, 128}
<1>1. BITS = 1 \/ BITS = 2 \/ BITS = 3 \/ BITS = 4 \/ BITS = 5 \/ BITS = 6 \/ BITS = 7
  BY BitsAssumption
<1> QED BY <1>1, TwoValues DEF INSTRUCT

(* When the loop ends, the bits copied are the number modulo 2^BITS. *)
LEMMA CopiedIsAsked ==
  ASSUME RegInv, ~Copying
  PROVE  binary = asked % INSTRUCT
<1> USE BitsAssumption
<1>1. /\ num \in Nat /\ binary \in Nat /\ asked \in Nat /\ bitPos \in 0 .. BITS
      /\ binary + num * Two(bitPos) = asked /\ binary < Two(bitPos)
      /\ num = 0 \/ bitPos = BITS
  BY DEF RegInv, RegTypeOK, BitsAddUp, Copying
<1>2. BITS = 1 \/ BITS = 2 \/ BITS = 3 \/ BITS = 4 \/ BITS = 5 \/ BITS = 6 \/ BITS = 7
  OBVIOUS
<1>3. CASE bitPos = BITS
  <2>1. binary + num * INSTRUCT = asked /\ binary < INSTRUCT
    BY <1>1, <1>3 DEF INSTRUCT
  <2> QED BY <1>1, <2>1, InstructValues
<1>4. CASE num = 0
  <2>1. Two(bitPos) \in Nat /\ num * Two(bitPos) = 0
    BY <1>1, <1>4, TwoValues
  <2>2. binary = asked
    BY <1>1, <1>4, <2>1
  <2>3. Two(bitPos) <= INSTRUCT
    BY <1>1, <1>2, TwoValues DEF INSTRUCT
  <2>4. INSTRUCT \in Nat \ {0} /\ binary < INSTRUCT
    BY <1>1, <2>1, <2>3, InstructValues
  <2>5. binary % INSTRUCT = binary
    BY <1>1, <2>4, InstructValues
  <2> QED BY <2>2, <2>5
<1> QED BY <1>1, <1>3, <1>4

(* So what is written then announces it, if it is below the flag. *)
LEMMA WriteAnnounces ==
  ASSUME RegInv, InstructWrite, asked < INSTRUCT PROVE Announces(asked)'
<1>1. command' = binary + INSTRUCT /\ asked' = asked /\ ~Copying
  BY DEF InstructWrite, set_Reg, w_vars
<1>2. binary = asked % INSTRUCT
  BY <1>1, CopiedIsAsked
<1>3. binary = asked /\ asked \in Nat
  BY <1>2, InstructValues DEF RegInv, RegTypeOK
<1>4. (asked + INSTRUCT) \div INSTRUCT = 1 /\ (asked + INSTRUCT) % INSTRUCT = asked
  BY <1>3, InstructValues
<1>5. INSTRUCT' = INSTRUCT
  BY DEF INSTRUCT, Two
<1> QED BY <1>1, <1>3, <1>4, <1>5 DEF Announces

(* The loop of w_instruct (345-349) keeps its number together: bits copied  *)
(* and bits left always make up what it was called with.                    *)
THEOREM BitsKept == RegisterSpec => []BitsAddUp
<1>1. RegInv => BitsAddUp
  BY DEF RegInv
<1> QED BY RegInitInv, RegStepInv, <1>1, PTL DEF RegisterSpec

(* A number that BITS bits hold is what w_instruct writes, under the flag   *)
(* and bit for bit (345-351).  The documented limit of 128 is not among     *)
(* them.                                                                    *)
THEOREM WritesWhatWasAsked == RegisterSpec => AnnouncesAsked
<1>1. RegInv /\ [RegisterNext]_register =>
        [InstructWrite /\ asked < INSTRUCT => Announces(asked)']_register
  BY WriteAnnounces
<1> QED BY RegInitInv, RegStepInv, <1>1, PTL DEF RegisterSpec, AnnouncesAsked
=============================================================================
